---- MODULE Spec2Model ----
(***************************************************************************)
(* Turkey Audio Tours backend: the identity middleware of                  *)
(* middleware/auth.js,                                                     *)
(* the auth, locations and users routers and the relational store they     *)
(* query, as a state machine.  Every store query is one atomic step; the   *)
(* handler code between two awaited queries belongs to the step of the     *)
(* query that precedes it.                                                 *)
(***************************************************************************)
EXTENDS FiniteSets, Integers, Sequences, TLC

VARIABLES
    now,              \* wall clock, in days
    JWT_SECRET,       \* process.env.JWT_SECRET ("" when unset)
    NODE_ENV,         \* process.env.NODE_ENV
    tokens,           \* the token generateToken handed out that the client holds
    reqs,             \* requests received so far, in arrival order
    users,            \* rows of table users
    usersSeq,         \* last value of the users.id SERIAL sequence
    locations,        \* rows of table locations
    locationsSeq,     \* last value of the locations.id SERIAL sequence
    user_favorites,   \* rows of table user_favorites
    favoritesSeq,     \* last value of the user_favorites.id SERIAL sequence
    user_progress,    \* rows of table user_progress
    progressSeq       \* last value of the user_progress.id SERIAL sequence

vars == <<now, JWT_SECRET, NODE_ENV, tokens, reqs, users, usersSeq,
          locations,
          locationsSeq, user_favorites, favoritesSeq, user_progress,
          progressSeq>>

storeVars == <<users, usersSeq, locations, locationsSeq, user_favorites,
               favoritesSeq, user_progress, progressSeq>>

(***************************************************************************)
(* Bounds of the model.                                                    *)
(***************************************************************************)
MaxTime == 8          \* the clock of the token specification stops here
MaxReqs == 2          \* requests per behaviour of a store specification

(***************************************************************************)
(* Values shared by all requests.                                          *)
(***************************************************************************)
Null == [kind |-> "null"]
Str(s) == [kind |-> "str", text |-> s]
NoBody == [kind |-> "none"]

Range(f) == {f[i] : i \in DOMAIN f}

(***************************************************************************)
(* Token Service: jsonwebtoken as used by generateToken and by the         *)
(* middleware.                                                             *)
(***************************************************************************)
FallbackSecret == "your-secret-key"
ExpiresInDays == 7

\* process.env.JWT_SECRET || 'your-secret-key'
EffectiveSecret(env) == IF env = "" THEN FallbackSecret ELSE env

\* HMAC-SHA256 of the encoded payload under a key: equal exactly when key
\* and message are equal.
HS256(key, msg) == [key |-> key, msg |-> msg]

\* jwt.sign(payload, secret, { expiresIn: '7d' }) at time t
jwtSign(payload, secret, t) ==
    LET body == [id |-> payload.id,
                 email |-> payload.email,
                 is_premium |-> payload.is_premium,
                 subscription_type |-> payload.subscription_type,
                 iat |-> t,
                 exp |-> t + ExpiresInDays]
    IN  [kind |-> "jwt", payload |-> body, sig |-> HS256(secret, body)]

generateTokenDropsType(user, env, t) ==
    jwtSign([id |-> user.id,
             email |-> user.email,
             is_premium |-> user.is_premium,
             subscription_type |-> "free"],
            EffectiveSecret(env), t)

\* generateToken(user): the four claims of the user row, signed for 7 days
generateToken(user, env, t) ==
    jwtSign([id |-> user.id,
             email |-> user.email,
             is_premium |-> user.is_premium,
             subscription_type |-> user.subscription_type],
            EffectiveSecret(env), t)

jwtVerifyExpiryFirst(token, secret, t) ==
    IF token.kind # "jwt"
    THEN [err |-> "JsonWebTokenError", decoded |-> Null]
    ELSE IF t >= token.payload.exp
    THEN [err |-> "TokenExpiredError", decoded |-> Null]
    ELSE IF token.sig # HS256(secret, token.payload)
    THEN [err |-> "JsonWebTokenError", decoded |-> Null]
    ELSE [err |-> "", decoded |-> token.payload]

\* jwt.verify(token, secret, callback) at time t: the structure of the token
\* first, then its signature, then its expiry
jwtVerify(token, secret, t) ==
    IF token.kind # "jwt"
    THEN [err |-> "JsonWebTokenError", decoded |-> Null]
    ELSE IF token.sig # HS256(secret, token.payload)
    THEN [err |-> "JsonWebTokenError", decoded |-> Null]
    ELSE IF t >= token.payload.exp
    THEN [err |-> "TokenExpiredError", decoded |-> Null]
    ELSE [err |-> "", decoded |-> token.payload]

(***************************************************************************)
(* Identity Middleware.                                                    *)
(***************************************************************************)
\* req.headers['authorization'], already split on ' '
NoHeader == [present |-> FALSE, parts |-> <<>>]
Header(parts) == [present |-> TRUE, parts |-> parts]
Bearer(token) == Header(<<Str("Bearer"), token>>)

\* authHeader && authHeader.split(' ')[1]
ExtractToken(header) ==
    IF header.present /\ Len(header.parts) >= 2 THEN header.parts[2] ELSE Null

\* !token
Falsy(token) == token = Null \/ token = Str("")

\* what a middleware leaves behind: the response it sent (status 0: none),
\* req.user, and how often it called next() and jwt.verify
Outcome(status, error, user, nextCalls, verifyCalls) ==
    [status |-> status, error |-> error, user |-> user,
     nextCalls |-> nextCalls, verifyCalls |-> verifyCalls]

authenticateTokenNoPresenceCheck(header, env, t) ==
    LET token == ExtractToken(header)
        v == jwtVerify(IF token = Null THEN Str("") ELSE token,
                       EffectiveSecret(env), t)
    IN  IF v.err = "TokenExpiredError"
        THEN Outcome(401, "Token expired", Null, 0, 1)
        ELSE IF v.err = "JsonWebTokenError"
        THEN Outcome(403, "Invalid token", Null, 0, 1)
        ELSE IF v.err # ""
        THEN Outcome(403, "Token verification failed", Null, 0, 1)
        ELSE Outcome(0, "", v.decoded, 1, 1)

authenticateTokenExpiredAs403(header, env, t) ==
    LET token == ExtractToken(header)
        v == jwtVerify(token, EffectiveSecret(env), t)
    IN  IF Falsy(token)
        THEN Outcome(401, "Access token required", Null, 0, 0)
        ELSE IF v.err = "JsonWebTokenError"
        THEN Outcome(403, "Invalid token", Null, 0, 1)
        ELSE IF v.err # ""
        THEN Outcome(403, "Token verification failed", Null, 0, 1)
        ELSE Outcome(0, "", v.decoded, 1, 1)

\* authenticateToken(req, res, next)
authenticateToken(header, env, t) ==
    LET token == ExtractToken(header)
        v == jwtVerify(token, EffectiveSecret(env), t)
    IN  IF Falsy(token)
        THEN Outcome(401, "Access token required", Null, 0, 0)
        ELSE IF v.err = "TokenExpiredError"
        THEN Outcome(401, "Token expired", Null, 0, 1)
        ELSE IF v.err = "JsonWebTokenError"
        THEN Outcome(403, "Invalid token", Null, 0, 1)
        ELSE IF v.err # ""
        THEN Outcome(403, "Token verification failed", Null, 0, 1)
        ELSE Outcome(0, "", v.decoded, 1, 1)

optionalAuthRejects(header, env, t) ==
    LET token == ExtractToken(header)
        v == jwtVerify(token, EffectiveSecret(env), t)
    IN  IF Falsy(token)
        THEN Outcome(0, "", Null, 1, 0)
        ELSE IF v.err # ""
        THEN Outcome(403, "Invalid token", Null, 0, 1)
        ELSE Outcome(0, "", v.decoded, 1, 1)

\* optionalAuth(req, res, next)
optionalAuth(header, env, t) ==
    LET token == ExtractToken(header)
        v == jwtVerify(token, EffectiveSecret(env), t)
    IN  IF Falsy(token)
        THEN Outcome(0, "", Null, 1, 0)
        ELSE IF v.err # ""
        THEN Outcome(0, "", Null, 1, 1)
        ELSE Outcome(0, "", v.decoded, 1, 1)

(***************************************************************************)
(* Requests.  One record per request: what the client sent, and what the   *)
(* middleware and the handler have done with it so far.                    *)
(***************************************************************************)
\* the rows of the four tables
Snapshot ==
    [users |-> users, locations |-> locations,
     user_favorites |-> user_favorites, user_progress |-> user_progress]

\* a request as it arrives: no response yet (status 0), req.user unset;
\* `after` are the requests answered before it arrived, `pre` and `post` the
\* tables when it arrived and when it was answered
NewReq(route, header, params, body) ==
    [route |-> route, header |-> header, params |-> params, body |-> body,
     pc |-> "new", status |-> 0, error |-> "", user |-> Null,
     nextCalls |-> 0, verifyCalls |-> 0, queries |-> 0,
     at |-> now, env |-> JWT_SECRET,
     after |-> {i \in DOMAIN reqs : reqs[i].pc = "done"},
     pre |-> Snapshot, post |-> Null,
     local |-> Null, data |-> Null, message |-> "", log |-> {}]

\* the request after a middleware ran on it
WithOutcome(req, o) ==
    [req EXCEPT !.status = o.status, !.error = o.error, !.user = o.user,
                !.nextCalls = o.nextCalls, !.verifyCalls = o.verifyCalls]

\* what authenticateToken wrote to the console: console.error('JWT
\* verification error:', err) when jwt.verify reported an error, and nothing
\* else; generateToken and optionalAuth write nothing
authenticateTokenConsole(o) ==
    IF o.verifyCalls = 1 /\ o.nextCalls = 0
    THEN {"JWT verification error:"} ELSE {}

\* res.status(status).json({ error, data }) ends the request, the tables
\* being `post`
Respond(req, status, error, data, post) ==
    [req EXCEPT !.pc = "done", !.status = status, !.error = error,
                !.data = data, !.post = post]

\* error.message of an error pool.query threw
PgError == "pg: the message of the DatabaseError"

\* a handler's catch block: res.status(500).json({ error, message:
\* error.message }), the tables being `post`
Caught(req, error, message, post) ==
    [Respond(req, 500, error, Null, post) EXCEPT !.message = message]

(***************************************************************************)
(* The token specification: generateToken, authenticateToken and           *)
(* optionalAuth applied to bounded inputs while the clock advances and the *)
(* process is restarted under another JWT_SECRET.                          *)
(***************************************************************************)
Secrets == {"", "s1"}

\* the values of NODE_ENV the deployment uses
Modes == {"development", "production"}

Email(local, domain) == [local |-> local, domain |-> domain]

\* user rows as register and login hand them to generateToken
AuthUsers ==
    {[id |-> 1, email |-> Email(<<"a">>, "x.com"),
      is_premium |-> FALSE, subscription_type |-> "free"],
     [id |-> 2, email |-> Email(<<"b">>, "x.com"),
      is_premium |-> TRUE, subscription_type |-> "premium"]}

\* a token whose payload was rewritten by its holder, signature kept
Tampered(token) ==
    {[token EXCEPT !.payload.is_premium = ~token.payload.is_premium],
     [token EXCEPT !.payload.exp = token.payload.exp + ExpiresInDays]}

\* the Authorization headers a client holding `held` may send
Headers(held) ==
    {NoHeader, Header(<<Str("Bearer")>>), Header(<<Str("Bearer"), Str("")>>),
     Bearer(Str("garbage"))}
    \cup {Bearer(t) : t \in held}
    \cup {Header(<<t>>) : t \in held}
    \cup UNION {{Bearer(f) : f \in Tampered(t)} : t \in held}

Tick ==
    /\ now < MaxTime
    /\ now' = now + 1
    /\ UNCHANGED <<JWT_SECRET, NODE_ENV, tokens, reqs, storeVars>>

\* the process is restarted with another value of JWT_SECRET
Restart(env) ==
    /\ env # JWT_SECRET
    /\ JWT_SECRET' = env
    /\ UNCHANGED <<now, NODE_ENV, tokens, reqs, storeVars>>

\* register or login hands generateToken's result for a user row to the
\* client, which keeps it in place of the token it held and starts afresh
Issue(user) ==
    /\ tokens' =
         {[token |-> generateToken(user, JWT_SECRET, now), user |-> user,
           secret |-> EffectiveSecret(JWT_SECRET), at |-> now,
                           log |-> {}]}
    /\ reqs' = <<>>
    /\ UNCHANGED <<now, JWT_SECRET, NODE_ENV, storeVars>>

\* a request passes through authenticateToken in front of a handler
Required(header) ==
    /\ LET o == authenticateToken(header, JWT_SECRET, now)
       IN  reqs' = <<[WithOutcome(NewReq("authenticateToken", header, NoBody,
                                         NoBody), o)
                      EXCEPT !.pc = "done",
                             !.log = authenticateTokenConsole(o)]>>
    /\ UNCHANGED <<now, JWT_SECRET, NODE_ENV, tokens, storeVars>>

\* a request passes through optionalAuth in front of a handler
Optional(header) ==
    /\ reqs' = <<[WithOutcome(NewReq("optionalAuth", header, NoBody, NoBody),
                              optionalAuth(header, JWT_SECRET, now))
                  EXCEPT !.pc = "done"]>>
    /\ UNCHANGED <<now, JWT_SECRET, NODE_ENV, tokens, storeVars>>

EmptyStore ==
    /\ users = {} /\ usersSeq = 0
    /\ locations = {} /\ locationsSeq = 0
    /\ user_favorites = {} /\ favoritesSeq = 0
    /\ user_progress = {} /\ progressSeq = 0

InitAuth ==
    /\ now = 0
    /\ JWT_SECRET \in Secrets
    /\ NODE_ENV \in Modes
    /\ tokens = {}
    /\ reqs = <<>>
    /\ EmptyStore

NextAuth ==
    \/ Tick
    \/ \E env \in Secrets : Restart(env)
    \/ \E user \in AuthUsers : Issue(user)
    \/ \E header \in Headers({i.token : i \in tokens}) : Required(header)
    \/ \E header \in Headers({i.token : i \in tokens}) : Optional(header)

SpecAuth == InitAuth /\ [][NextAuth]_vars

\* the requests that went through authenticateToken / optionalAuth
RequiredReqs == {r \in Range(reqs) : r.route = "authenticateToken"}
OptionalReqs == {r \in Range(reqs) : r.route = "optionalAuth"}

\* the token a request presents after the scheme, if any
Presented(r) ==
    IF r.header.present /\ Len(r.header.parts) >= 2
    THEN r.header.parts[2] ELSE Null

SameClaims(user, claims) ==
    /\ claims # Null
    /\ claims.id = user.id
    /\ claims.email = user.email
    /\ claims.is_premium = user.is_premium
    /\ claims.subscription_type = user.subscription_type

\* C2: a token produced by generateToken and presented to authenticateToken
\* before its 7-day expiry, under the same secret, is accepted (no response
\* sent, next() called) and req.user carries the id, email, is_premium and
\* subscription_type of the user row it was issued for.
C2_RoundTrip ==
    \A r \in RequiredReqs : \A i \in tokens :
        (/\ r.header = Bearer(i.token)
         /\ EffectiveSecret(r.env) = i.secret
         /\ r.at < i.at + ExpiresInDays)
        => (r.status = 0 /\ r.nextCalls = 1 /\ SameClaims(i.user, r.user))

C2_Witness ==
    \E r \in RequiredReqs : \E i \in tokens :
        /\ r.header = Bearer(i.token)
        /\ EffectiveSecret(r.env) = i.secret
        /\ i.at < r.at /\ r.at < i.at + ExpiresInDays
        /\ i.user.is_premium /\ i.user.subscription_type = "premium"
        /\ r.nextCalls = 1 /\ SameClaims(i.user, r.user)

\* C3: a validly signed token presented to authenticateToken at or after its
\* expiry time is rejected with 401 'Token expired', never with 403, and
\* next() (the route handler) is not called.
C3_ExpiredIs401 ==
    \A r \in RequiredReqs : \A i \in tokens :
        (/\ r.header = Bearer(i.token)
         /\ EffectiveSecret(r.env) = i.secret
         /\ r.at >= i.at + ExpiresInDays)
        => (r.status = 401 /\ r.error = "Token expired" /\ r.nextCalls = 0)

C3_Witness ==
    \E r \in RequiredReqs : \E i \in tokens :
        /\ r.header = Bearer(i.token)
        /\ EffectiveSecret(r.env) = i.secret
        /\ r.at >= i.at + ExpiresInDays
        /\ r.status = 401 /\ r.error = "Token expired"

\* the signature of the presented token does not validate against the secret
\* the process runs under
BadSignature(r) ==
    /\ Presented(r) # Null
    /\ Presented(r).kind = "jwt"
    /\ Presented(r).sig # HS256(EffectiveSecret(r.env), Presented(r).payload)

\* C4: a token whose signature does not validate against the current secret
\* (tampered, or signed under another secret) is rejected by authenticateToken
\* with 403, never with 401 'Token expired', whether or not its expiry time
\* has passed.
C4_BadSignatureIs403 ==
    \A r \in RequiredReqs :
        BadSignature(r)
        => (r.status = 403 /\ r.error # "Token expired" /\ r.nextCalls = 0)

C4_Witness ==
    \E r \in RequiredReqs :
        /\ BadSignature(r)
        /\ r.at >= Presented(r).payload.exp
        /\ r.status = 403

\* C5: in Required mode a request whose Authorization header is absent or
\* carries no token after the scheme gets 401 'Access token required', token
\* verification is not called and next() (the route handler) does not run.
C5_TokenRequired ==
    \A r \in RequiredReqs :
        (r.header \in {NoHeader, Header(<<Str("Bearer")>>),
                       Header(<<Str("Bearer"), Str("")>>)})
        => (/\ r.status = 401 /\ r.error = "Access token required"
            /\ r.verifyCalls = 0 /\ r.nextCalls = 0)

C5_Witness ==
    \E r \in RequiredReqs :
        /\ r.header = Header(<<Str("Bearer")>>)
        /\ r.status = 401 /\ r.error = "Access token required"
        /\ r.verifyCalls = 0

\* the presented token is one generateToken issued, under the secret the
\* process runs under, and not yet expired
Verifies(r) ==
    \E i \in tokens :
        /\ Presented(r) = i.token
        /\ EffectiveSecret(r.env) = i.secret
        /\ r.at < i.at + ExpiresInDays

\* C6: in Optional mode no request is rejected and next() is called exactly
\* once; req.user is the verified claims when verification succeeds and null
\* in every other case (no header, malformed, expired or tampered token).
C6_OptionalNeverRejects ==
    \A r \in OptionalReqs :
        /\ r.status = 0
        /\ r.nextCalls = 1
        /\ IF Verifies(r) THEN r.user = Presented(r).payload
                          ELSE r.user = Null

C6_Witness ==
    /\ \E r \in OptionalReqs :
          /\ Presented(r) # Null /\ Presented(r).kind = "jwt"
          /\ ~Verifies(r) /\ r.user = Null /\ r.nextCalls = 1
          /\ r.verifyCalls = 1

(***************************************************************************)
(* express-validator and bcryptjs as the routers use them.                 *)
(***************************************************************************)
\* an e-mail address is its local part, character by character, and its
\* domain; a password is its characters
Lower(c) == CASE c = "A" -> "a" [] c = "B" -> "b" [] OTHER -> c

LowerDomain(d) ==
    CASE d = "X.com" -> "x.com"
      [] d = "Gmail.com" -> "gmail.com"
      [] OTHER -> d

RECURSIVE RemoveDots(_)
RemoveDots(local) ==
    IF local = <<>> THEN <<>>
    ELSE IF Head(local) = "." THEN RemoveDots(Tail(local))
    ELSE <<Head(local)>> \o RemoveDots(Tail(local))

\* isEmail(): a local part and a domain on either side of the '@'
isEmail(e) == Len(e.local) >= 1 /\ e.domain # ""

\* normalizeEmail() with its default options: the domain in lower case; for
\* gmail.com and googlemail.com the local part in lower case without dots
\* under gmail.com; for every other domain the local part in lower case
normalizeEmail(e) ==
    LET domain == LowerDomain(e.domain)
    IN  IF domain \in {"gmail.com", "googlemail.com"}
        THEN Email(RemoveDots([i \in DOMAIN e.local |-> Lower(e.local[i])]),
                   "gmail.com")
        ELSE Email([i \in DOMAIN e.local |-> Lower(e.local[i])], domain)

MinPasswordLength == 6
saltRounds == 12

\* bcrypt.hash(password, saltRounds) and bcrypt.compare(password, hash)
bcryptHash(password, rounds) ==
    [alg |-> "bcrypt", cost |-> rounds, of |-> password]
bcryptCompare(password, hash) == hash.of = password

(***************************************************************************)
(* The store: the tables of initializeDatabase and the statements the      *)
(* routers run on them.  A statement that violates a constraint raises an  *)
(* error and changes no row.                                               *)
(***************************************************************************)
\* a row of users as INSERT INTO users (email, password_hash, first_name,
\* last_name) creates it: is_premium and subscription_type by DEFAULT
UserRow(id, email, password_hash, first_name, last_name, t) ==
    [id |-> id, email |-> email, password_hash |-> password_hash,
     first_name |-> first_name, last_name |-> last_name,
     is_premium |-> FALSE, subscription_type |-> "free",
     created_at |-> t, updated_at |-> t]

\* the columns a SELECT list or a RETURNING clause names, of one row
Columns(row, names) == [c \in names |-> row[c]]

SelectUsersByEmailNone(table, email) == {}

\* SELECT id FROM users WHERE email = $1
SelectUsersByEmail(table, email) == {u \in table : u.email = email}

\* INSERT INTO users (...) VALUES (...) RETURNING ...: id from the SERIAL
\* sequence; email is UNIQUE
InsertUser(table, seq, email, password_hash, first_name, last_name, t) ==
    LET row == UserRow(seq + 1, email, password_hash, first_name, last_name, t)
    IN  IF \E u \in table : u.email = email
        THEN [ok |-> FALSE, table |-> table, rows |-> {}]
        ELSE [ok |-> TRUE, table |-> table \cup {row}, rows |-> {row}]

\* NULL in a text column and in a numeric column
NullText == "<NULL>"
NullNum == -1000000

\* a boolean column holds 'true', 'false' or NULL
BoolText(b) == IF b THEN "true" ELSE "false"

\* a row of locations; rating in tenths, latitude and longitude in 1/10000
\* degree, is_premium as BoolText, a column that is NULL NullText or NullNum
LocationRow(id, f, created_by, t) ==
    [id |-> id, name |-> f.name, description |-> f.description,
     category |-> f.category, duration |-> f.duration, rating |-> f.rating,
     listeners |-> f.listeners, is_premium |-> f.is_premium,
     image_url |-> f.image_url, audio_url |-> f.audio_url,
     latitude |-> f.latitude, longitude |-> f.longitude,
     created_at |-> t, updated_at |-> t, created_by |-> created_by]

\* defaultLocations, inserted one after the other before the server listens
DefaultLocations ==
    {LocationRow(1, [name |-> "Hagia Sophia", description |-> "A masterpiece",
                     category |-> "Architecture", duration |-> "8 min",
                     rating |-> 49, listeners |-> 2100, is_premium |-> "false",
                     image_url |-> "photo-1541432901042", audio_url |-> NullText,
                     latitude |-> 410086, longitude |-> 289802], NullNum, -4),
     LocationRow(2, [name |-> "Blue Mosque", description |-> "The Sultan Ahmed",
                     category |-> "Religion", duration |-> "6 min",
                     rating |-> 48, listeners |-> 1850, is_premium |-> "false",
                     image_url |-> "photo-1524231757912", audio_url |-> NullText,
                     latitude |-> 410054, longitude |-> 289768], NullNum, -3),
     LocationRow(3, [name |-> "Topkapi Palace", description |-> "Former residence",
                     category |-> "History", duration |-> "12 min",
                     rating |-> 47, listeners |-> 1650, is_premium |-> "true",
                     image_url |-> "photo-1570939274717", audio_url |-> NullText,
                     latitude |-> 410115, longitude |-> 289833], NullNum, -2),
     LocationRow(4, [name |-> "Galata Tower", description |-> "A medieval stone",
                     category |-> "Architecture", duration |-> "10 min",
                     rating |-> 47, listeners |-> 1800, is_premium |-> "false",
                     image_url |-> "photo-1524231757912", audio_url |-> NullText,
                     latitude |-> 410256, longitude |-> 289744], NullNum, -1)}

\* SELECT ... FROM locations WHERE id = $1
SelectLocationById(table, id) == {l \in table : l.id = id}

FavoriteRow(id, user_id, location_id, t) ==
    [id |-> id, user_id |-> user_id, location_id |-> location_id,
     created_at |-> t]

\* SELECT id FROM user_favorites WHERE user_id = $1 AND location_id = $2
SelectFavorite(table, user_id, location_id) ==
    {f \in table : f.user_id = user_id /\ f.location_id = location_id}

InsertFavoriteNoForeignKey(table, seq, user_id, location_id, t) ==
    IF SelectFavorite(table, user_id, location_id) # {}
    THEN [ok |-> FALSE, table |-> table]
    ELSE [ok |-> TRUE,
          table |-> table \cup {FavoriteRow(seq + 1, user_id, location_id, t)}]

\* INSERT INTO user_favorites (user_id, location_id) VALUES ($1, $2): both
\* columns REFERENCES their table, the pair is UNIQUE
InsertFavorite(table, seq, user_id, location_id, t) ==
    IF \/ SelectFavorite(table, user_id, location_id) # {}
       \/ ~\E u \in users : u.id = user_id
       \/ ~\E l \in locations : l.id = location_id
    THEN [ok |-> FALSE, table |-> table]
    ELSE [ok |-> TRUE,
          table |-> table \cup {FavoriteRow(seq + 1, user_id, location_id, t)}]

DeleteFavoriteOfAnyone(table, user_id, location_id) ==
    LET gone == {f \in table : f.location_id = location_id}
    IN  [table |-> table \ gone, rowCount |-> Cardinality(gone)]

DeleteFavoriteSilent(table, user_id, location_id) ==
    [table |-> {f \in table : ~(f.user_id = user_id
                                /\ f.location_id = location_id)},
     rowCount |-> 1]

\* DELETE FROM user_favorites WHERE user_id = $1 AND location_id = $2
DeleteFavorite(table, user_id, location_id) ==
    LET gone == SelectFavorite(table, user_id, location_id)
    IN  [table |-> table \ gone, rowCount |-> Cardinality(gone)]

ProgressRow(id, user_id, location_id, f, t) ==
    [id |-> id, user_id |-> user_id, location_id |-> location_id,
     progress_percentage |-> f.progress_percentage,
     completed |-> f.completed, last_position |-> f.last_position,
     created_at |-> t, updated_at |-> t]

SelectProgress(table, user_id, location_id) ==
    {q \in table : q.user_id = user_id /\ q.location_id = location_id}

UpsertProgressAlwaysInserts(table, seq, user_id, location_id, f, t) ==
    LET row == ProgressRow(seq + 1, user_id, location_id, f, t)
    IN  [ok |-> TRUE, table |-> table \cup {row}, rows |-> {row}]

\* INSERT INTO user_progress (...) VALUES (...) ON CONFLICT (user_id,
\* location_id) DO UPDATE SET progress_percentage, completed, last_position
\* = EXCLUDED.*, updated_at = CURRENT_TIMESTAMP RETURNING ...
UpsertProgress(table, seq, user_id, location_id, f, t) ==
    LET old == SelectProgress(table, user_id, location_id)
        new == {[q EXCEPT !.progress_percentage = f.progress_percentage,
                          !.completed = f.completed,
                          !.last_position = f.last_position,
                          !.updated_at = t] : q \in old}
        row == ProgressRow(seq + 1, user_id, location_id, f, t)
    IN  IF \/ ~\E u \in users : u.id = user_id
           \/ ~\E l \in locations : l.id = location_id
        THEN [ok |-> FALSE, table |-> table, rows |-> {}]
        ELSE IF old # {}
        THEN [ok |-> TRUE, table |-> (table \ old) \cup new, rows |-> new]
        ELSE [ok |-> TRUE, table |-> table \cup {row}, rows |-> {row}]

\* param(...).isInt({ min }) on a path parameter, and parseInt of a string
\* (NullNum where parseInt yields NaN)
Digits == {"0", "1", "2", "3", "4", "9"}
ParseInt(p) ==
    CASE p = "0" -> 0 [] p = "1" -> 1 [] p = "2" -> 2 [] p = "3" -> 3
      [] p = "4" -> 4 [] p = "9" -> 9 [] p = "-1" -> -1 [] OTHER -> NullNum
IsInt(p, min) == p \in Digits /\ ParseInt(p) >= min

(***************************************************************************)
(* POST /api/auth/register                                                 *)
(***************************************************************************)
RegisterRoute == "POST /api/auth/register"

\* validateRegistration
RegistrationValid(body) ==
    /\ isEmail(body.email)
    /\ Len(body.password) >= MinPasswordLength

\* the request is received, validated and sanitised, and the handler runs up
\* to and including SELECT id FROM users WHERE email = $1
RegisterCheck(body) ==
    /\ LET req == NewReq(RegisterRoute, NoHeader, NoBody, body)
           email == normalizeEmail(body.email)
       IN  reqs' = Append(reqs,
             IF ~RegistrationValid(body)
             THEN Respond(req, 400, "Validation failed", Null, Snapshot)
             ELSE IF SelectUsersByEmail(users, email) # {}
             THEN Respond([req EXCEPT !.queries = 1],
                          409, "User already exists", Null, Snapshot)
             ELSE [req EXCEPT !.pc = "insert", !.queries = 1,
                              !.local = [email |-> email]])
    /\ UNCHANGED <<now, JWT_SECRET, NODE_ENV, tokens, storeVars>>

\* the handler resumes: bcrypt.hash, INSERT INTO users, generateToken, 201;
\* an error of the INSERT is caught and answered with 500
RegisterInsert(i) ==
    /\ reqs[i].route = RegisterRoute /\ reqs[i].pc = "insert"
    /\ LET req == [reqs[i] EXCEPT !.queries = 2]
           ins == InsertUser(users, usersSeq, req.local.email,
                             bcryptHash(req.body.password, saltRounds),
                             req.body.first_name, req.body.last_name, now)
           user == Columns(CHOOSE u \in ins.rows : TRUE,
                           {"id", "email", "first_name", "last_name",
                            "is_premium", "subscription_type", "created_at"})
           token == generateToken(user, JWT_SECRET, now)
       IN  /\ usersSeq' = usersSeq + 1
           /\ users' = ins.table
           /\ IF ins.ok
              THEN /\ reqs' = [reqs EXCEPT ![i] =
                         Respond(req, 201, "",
                                 [user |-> user, token |-> token],
                                 [Snapshot EXCEPT !.users = ins.table])]
                   /\ tokens' = tokens \cup
                         {[token |-> token, user |-> user,
                           secret |-> EffectiveSecret(JWT_SECRET), at |-> now,
                           log |-> {}]}
              ELSE /\ reqs' = [reqs EXCEPT ![i] =
                         Caught(req, "Failed to register user", PgError,
                                Snapshot)]
                   /\ UNCHANGED tokens
    /\ UNCHANGED <<now, JWT_SECRET, NODE_ENV,
                   locations, locationsSeq, user_favorites,
                   favoritesSeq, user_progress, progressSeq>>

\* the e-mail addresses and passwords clients submit; first_name and
\* last_name are left out of the body, so the handler reads them as ''
RawEmails ==
    {Email(<<"a">>, "x.com"), Email(<<"A">>, "X.com"),
     Email(<<"a", ".", "b">>, "gmail.com"), Email(<<"A", "b">>, "googlemail.com"),
     Email(<<>>, "x.com")}

Passwords == {<<"s", "e", "c", "r", "e", "t", "1">>, <<"a", "b", "c">>}

RegisterBodies ==
    {[email |-> e, password |-> p, first_name |-> "", last_name |-> ""] :
        e \in RawEmails, p \in Passwords}

InitRegister ==
    /\ now = 0
    /\ JWT_SECRET = "s1"
    /\ NODE_ENV = "production"
    /\ tokens = {}
    /\ reqs = <<>>
    /\ EmptyStore

NextRegister ==
    \/ Len(reqs) < MaxReqs /\ \E body \in RegisterBodies : RegisterCheck(body)
    \/ \E i \in DOMAIN reqs : RegisterInsert(i)

SpecRegister == InitRegister /\ [][NextRegister]_vars

\* the raw addresses that name the same mailbox as e: equal after case
\* folding, and for the gmail domains after dropping dots
Mailbox(e) ==
    IF e \in {Email(<<"a">>, "x.com"), Email(<<"A">>, "X.com")}
    THEN {Email(<<"a">>, "x.com"), Email(<<"A">>, "X.com")}
    ELSE IF e \in {Email(<<"a", ".", "b">>, "gmail.com"),
                   Email(<<"A", "b">>, "googlemail.com")}
    THEN {Email(<<"a", ".", "b">>, "gmail.com"),
          Email(<<"A", "b">>, "googlemail.com")}
    ELSE {e}

SameMailbox(e1, e2) == e2 \in Mailbox(e1)

\* the users rows of the mailbox of e, however the address is written
RowsOfMailbox(e) ==
    LET forms == Mailbox(e) \cup
                 (IF Email(<<"a", ".", "b">>, "gmail.com") \in Mailbox(e)
                  THEN {Email(<<"a", "b">>, "gmail.com")} ELSE {})
    IN  {u \in users : u.email \in forms}

ValidRegister(r) ==
    /\ r.route = RegisterRoute
    /\ Len(r.body.email.local) >= 1
    /\ Len(r.body.password) >= 6

\* requests i and j do not overlap, i first
Before(i, j) == i \in reqs[j].after

\* request i is the first registration for its mailbox and is answered
\* before any other one for that mailbox is received
FirstForMailbox(i) ==
    \A m \in DOMAIN reqs :
        (/\ m # i /\ ValidRegister(reqs[m])
         /\ SameMailbox(reqs[m].body.email, reqs[i].body.email))
        => Before(i, m)

\* C1: of two valid registrations whose e-mails normalise to the same value,
\* issued one after the other in either order against a store without that
\* e-mail, the first gets 201 and creates the only users row of that e-mail
\* and the second gets 409.
C1_OneSuccessOneConflict ==
    \A i \in DOMAIN reqs : \A j \in DOMAIN reqs :
        (/\ ValidRegister(reqs[i]) /\ ValidRegister(reqs[j])
         /\ SameMailbox(reqs[i].body.email, reqs[j].body.email)
         /\ FirstForMailbox(i)
         /\ Before(i, j) /\ reqs[j].pc = "done")
        => (/\ reqs[i].status = 201
            /\ reqs[j].status = 409
            /\ {u.id : u \in RowsOfMailbox(reqs[i].body.email)}
                  = {reqs[i].data.user.id})

C1_Witness ==
    \E i \in DOMAIN reqs : \E j \in DOMAIN reqs :
        /\ ValidRegister(reqs[i]) /\ ValidRegister(reqs[j])
        /\ reqs[i].body.email # reqs[j].body.email
        /\ SameMailbox(reqs[i].body.email, reqs[j].body.email)
        /\ Before(i, j)
        /\ reqs[i].status = 201 /\ reqs[j].status = 409

(***************************************************************************)
(* The users router: favorites and progress.  Every route runs             *)
(* authenticateToken first, then its validators, then the handler.         *)
(***************************************************************************)
\* the users table after a@x.com and b@x.com registered, and the tokens
\* their registrations returned
RegisteredUsers ==
    {UserRow(1, Email(<<"a">>, "x.com"),
             bcryptHash(<<"s", "e", "c", "r", "e", "t", "1">>, saltRounds),
             "", "", 0),
     UserRow(2, Email(<<"b">>, "x.com"),
             bcryptHash(<<"s", "e", "c", "r", "e", "t", "2">>, saltRounds),
             "", "", 0)}

InitRegistered ==
    /\ now = 0
    /\ JWT_SECRET = "s1"
    /\ NODE_ENV = "production"
    /\ tokens = {[token |-> generateToken(u, "s1", 0), user |-> u,
                  secret |-> "s1", at |-> 0,
                  log |-> {}] : u \in RegisteredUsers}
    /\ reqs = <<>>
    /\ users = RegisteredUsers /\ usersSeq = 2
    /\ locations = DefaultLocations /\ locationsSeq = 4
    /\ user_favorites = {} /\ favoritesSeq = 0
    /\ user_progress = {} /\ progressSeq = 0

AuthenticatedFromStore(req) ==
    LET o == authenticateToken(req.header, JWT_SECRET, now)
        seen == [WithOutcome(req, o) EXCEPT !.log = authenticateTokenConsole(o)]
        rows == {u \in users : u.id = o.user.id}
        row == CHOOSE u \in rows : TRUE
    IN  IF o.nextCalls = 0
        THEN Respond(seen, o.status, o.error, Null, Snapshot)
        ELSE IF rows = {} THEN seen
        ELSE [seen EXCEPT !.user.email = row.email,
                          !.user.is_premium = row.is_premium,
                          !.user.subscription_type = row.subscription_type]

AuthenticatedAsGuest(req) ==
    LET o == authenticateToken(req.header, JWT_SECRET, now)
    IN  IF o.nextCalls = 0
        THEN WithOutcome(req, Outcome(0, "", [id |-> 0], 1, o.verifyCalls))
        ELSE WithOutcome(req, o)

\* the request after authenticateToken; it is answered when that rejected it
Authenticated(req) ==
    LET o == authenticateToken(req.header, JWT_SECRET, now)
        seen == [WithOutcome(req, o) EXCEPT !.log = authenticateTokenConsole(o)]
    IN  IF o.nextCalls = 0
        THEN Respond(seen, o.status, o.error, Null, Snapshot)
        ELSE seen

FavoriteAddRoute == "POST /api/users/favorites/:locationId"
FavoriteRemoveRoute == "DELETE /api/users/favorites/:locationId"

\* POST /favorites/:locationId is received and runs up to and including
\* SELECT id FROM locations WHERE id = $1
FavoriteAdd(header, locationId) ==
    /\ LET req == Authenticated(NewReq(FavoriteAddRoute, header,
                                       [locationId |-> locationId], NoBody))
       IN  reqs' = Append(reqs,
             IF req.pc = "done" THEN req
             ELSE IF ~IsInt(locationId, 1)
             THEN Respond(req, 400, "Validation failed", Null, Snapshot)
             ELSE IF SelectLocationById(locations, ParseInt(locationId)) = {}
             THEN Respond([req EXCEPT !.queries = 1],
                          404, "Location not found", Null, Snapshot)
             ELSE [req EXCEPT !.pc = "check", !.queries = 1])
    /\ UNCHANGED <<now, JWT_SECRET, NODE_ENV, tokens, storeVars>>

\* the handler resumes with SELECT id FROM user_favorites WHERE ...
FavoriteAddCheck(i) ==
    /\ reqs[i].route = FavoriteAddRoute /\ reqs[i].pc = "check"
    /\ LET req == [reqs[i] EXCEPT !.queries = 2]
       IN  reqs' = [reqs EXCEPT ![i] =
             IF SelectFavorite(user_favorites, req.user.id,
                               ParseInt(req.params.locationId)) # {}
             THEN Respond(req, 409, "Location already in favorites", Null,
                          Snapshot)
             ELSE [req EXCEPT !.pc = "insert"]]
    /\ UNCHANGED <<now, JWT_SECRET, NODE_ENV, tokens, storeVars>>

\* the handler resumes with INSERT INTO user_favorites and answers 201; an
\* error of the INSERT is caught and answered with 500
FavoriteAddInsert(i) ==
    /\ reqs[i].route = FavoriteAddRoute /\ reqs[i].pc = "insert"
    /\ LET req == [reqs[i] EXCEPT !.queries = 3]
           ins == InsertFavorite(user_favorites, favoritesSeq, req.user.id,
                                 ParseInt(req.params.locationId), now)
           post == [Snapshot EXCEPT !.user_favorites = ins.table]
       IN  /\ user_favorites' = ins.table
           /\ favoritesSeq' = favoritesSeq + 1
           /\ reqs' = [reqs EXCEPT ![i] =
                IF ins.ok
                THEN Respond(req, 201, "", Null, post)
                ELSE Caught(req, "Failed to add to favorites", PgError,
                            post)]
    /\ UNCHANGED <<now, JWT_SECRET, NODE_ENV,
                   tokens, users, usersSeq, locations,
                   locationsSeq, user_progress, progressSeq>>

\* DELETE /favorites/:locationId: one statement, 404 when it deleted no row
FavoriteRemove(header, locationId) ==
    /\ LET req == Authenticated(NewReq(FavoriteRemoveRoute, header,
                                       [locationId |-> locationId], NoBody))
           del == DeleteFavorite(user_favorites, req.user.id,
                                 ParseInt(locationId))
           post == [Snapshot EXCEPT !.user_favorites = del.table]
       IN  IF req.pc = "done" \/ ~IsInt(locationId, 1)
           THEN /\ reqs' = Append(reqs,
                     IF req.pc = "done" THEN req
                     ELSE Respond(req, 400, "Validation failed", Null,
                                  Snapshot))
                /\ UNCHANGED user_favorites
           ELSE /\ user_favorites' = del.table
                /\ reqs' = Append(reqs,
                     IF del.rowCount = 0
                     THEN Respond([req EXCEPT !.queries = 1],
                                  404, "Favorite not found", Null, post)
                     ELSE Respond([req EXCEPT !.queries = 1],
                                  200, "", Null, post))
    /\ UNCHANGED <<now, JWT_SECRET, NODE_ENV,
                   tokens, users, usersSeq, locations,
                   locationsSeq, favoritesSeq, user_progress, progressSeq>>

\* what clients of the favorites routes send
MaxFavoriteReqs == 3
FavoriteHeaders ==
    {NoHeader} \cup {Bearer(i.token) : i \in tokens}
LocationIdParams == {"1", "9", "abc"}

NextFavorites ==
    \/ /\ Len(reqs) < MaxFavoriteReqs
       /\ \E header \in FavoriteHeaders, locationId \in LocationIdParams :
             FavoriteAdd(header, locationId)
    \/ \E i \in DOMAIN reqs : FavoriteAddCheck(i)
    \/ \E i \in DOMAIN reqs : FavoriteAddInsert(i)
    \/ /\ Len(reqs) < MaxFavoriteReqs
       /\ \E header \in FavoriteHeaders, locationId \in LocationIdParams :
             FavoriteRemove(header, locationId)

SpecFavorites == InitRegistered /\ [][NextFavorites]_vars

\* request r got past authenticateToken and the validators of a favorites
\* route for user id and existing location loc
OnPair(r, id, loc) ==
    /\ r.route \in {FavoriteAddRoute, FavoriteRemoveRoute}
    /\ r.user # Null /\ r.user.id = id
    /\ r.params.locationId = loc

\* no other request on the same pair overlaps request i
Alone(i, id, loc) ==
    \A m \in DOMAIN reqs :
        (m # i /\ OnPair(reqs[m], id, loc)) => (Before(m, i) \/ Before(i, m))

HasFavorite(snapshot, id, loc) ==
    \E f \in snapshot.user_favorites :
        f.user_id = id /\ f.location_id = ParseInt(loc)

\* C8 (a): DELETE of a favorite that is not present returns 404
RemoveAbsentIs404 ==
    \A i \in DOMAIN reqs :
        (/\ reqs[i].route = FavoriteRemoveRoute /\ OnPair(reqs[i], 1, "1")
         /\ ~HasFavorite(reqs[i].pre, 1, "1"))
        => reqs[i].status = 404

\* C8 (b): POST of a favorite that is already present returns 409 and adds
\* no row
AddPresentIs409 ==
    \A i \in DOMAIN reqs :
        (/\ reqs[i].route = FavoriteAddRoute /\ OnPair(reqs[i], 1, "1")
         /\ HasFavorite(reqs[i].pre, 1, "1")
         /\ Alone(i, 1, "1") /\ reqs[i].pc = "done")
        => (/\ reqs[i].status = 409
            /\ SelectFavorite(reqs[i].post.user_favorites, 1, 1)
                  = SelectFavorite(reqs[i].pre.user_favorites, 1, 1))

\* C8 (c): add, remove, remove one after the other, the favorite absent at
\* first, return 201, 200, 404
AddRemoveRemove(i, j, k) ==
    /\ reqs[i].route = FavoriteAddRoute /\ OnPair(reqs[i], 1, "1")
    /\ reqs[j].route = FavoriteRemoveRoute /\ OnPair(reqs[j], 1, "1")
    /\ reqs[k].route = FavoriteRemoveRoute /\ OnPair(reqs[k], 1, "1")
    /\ ~HasFavorite(reqs[i].pre, 1, "1")
    /\ Before(i, j) /\ Before(j, k)
    /\ \A m \in DOMAIN reqs :
          (m \notin {i, j, k} /\ OnPair(reqs[m], 1, "1"))
          => (Before(m, i) \/ Before(k, m))

\* C8: for user 1 and the existing location 1: DELETE of a favorite that is
\* not present returns 404; POST of a favorite that is already present
\* returns 409 and adds no row; and add, remove, remove in sequence return
\* 201, 200, 404.
C8_FavoriteStatuses ==
    /\ RemoveAbsentIs404
    /\ AddPresentIs409
    /\ \A i \in DOMAIN reqs, j \in DOMAIN reqs, k \in DOMAIN reqs :
          AddRemoveRemove(i, j, k)
          => (/\ reqs[i].status = 201 /\ reqs[j].status = 200
              /\ reqs[k].status = 404)

C8_Witness ==
    \E i \in DOMAIN reqs, j \in DOMAIN reqs, k \in DOMAIN reqs :
        /\ AddRemoveRemove(i, j, k)
        /\ reqs[i].status = 201 /\ reqs[j].status = 200 /\ reqs[k].status = 404

(***************************************************************************)
(* PUT /api/users/progress/:locationId                                     *)
(***************************************************************************)
ProgressRoute == "PUT /api/users/progress/:locationId"

\* a body of the progress route: the fields it carries (`has`) and their
\* values; a field it does not carry is undefined
Supplied(body, field) == field \in body.has

\* the validators of the route
ProgressValid(locationId, body) ==
    /\ IsInt(locationId, 1)
    /\ Supplied(body, "progress_percentage")
    /\ body.progress_percentage >= 0 /\ body.progress_percentage <= 100
    /\ Supplied(body, "last_position") => body.last_position >= 0

\* const { progress_percentage, completed = false, last_position = 0 }
ProgressFields(body) ==
    [progress_percentage |-> body.progress_percentage,
     completed |-> IF Supplied(body, "completed") THEN body.completed
                   ELSE FALSE,
     last_position |-> IF Supplied(body, "last_position")
                       THEN body.last_position ELSE 0]

\* the route is received and runs up to and including
\* SELECT id FROM locations WHERE id = $1
ProgressPut(header, locationId, body) ==
    /\ LET req == Authenticated(NewReq(ProgressRoute, header,
                                       [locationId |-> locationId], body))
       IN  reqs' = Append(reqs,
             IF req.pc = "done" THEN req
             ELSE IF ~ProgressValid(locationId, body)
             THEN Respond(req, 400, "Validation failed", Null, Snapshot)
             ELSE IF SelectLocationById(locations, ParseInt(locationId)) = {}
             THEN Respond([req EXCEPT !.queries = 1],
                          404, "Location not found", Null, Snapshot)
             ELSE [req EXCEPT !.pc = "upsert", !.queries = 1])
    /\ UNCHANGED <<now, JWT_SECRET, NODE_ENV, tokens, storeVars>>

\* the handler resumes with the upsert and answers 200 with the row it
\* returned; an error of the statement is caught and answered with 500
ProgressUpsert(i) ==
    /\ reqs[i].route = ProgressRoute /\ reqs[i].pc = "upsert"
    /\ LET req == [reqs[i] EXCEPT !.queries = 2]
           ups == UpsertProgress(user_progress, progressSeq, req.user.id,
                                 ParseInt(req.params.locationId),
                                 ProgressFields(req.body), now)
           post == [Snapshot EXCEPT !.user_progress = ups.table]
           row == CHOOSE q \in ups.rows : TRUE
       IN  /\ user_progress' = ups.table
           /\ progressSeq' = progressSeq + 1
           /\ reqs' = [reqs EXCEPT ![i] =
                IF ups.ok
                THEN Respond(req, 200, "",
                             [progress_percentage |-> row.progress_percentage,
                              completed |-> row.completed,
                              last_position |-> row.last_position,
                              updated_at |-> row.updated_at], post)
                ELSE Caught(req, "Failed to update progress", PgError,
                            post)]
    /\ UNCHANGED <<now, JWT_SECRET, NODE_ENV,
                   tokens, users, usersSeq, locations,
                   locationsSeq, user_favorites, favoritesSeq>>

\* the clock of a store specification
MaxStoreTime == 1
StoreTick ==
    /\ now < MaxStoreTime
    /\ now' = now + 1
    /\ UNCHANGED <<JWT_SECRET, NODE_ENV, tokens, reqs, storeVars>>

\* what clients of the progress route send
ProgressBodies ==
    {[has |-> {"progress_percentage", "completed", "last_position"},
      progress_percentage |-> 50, completed |-> FALSE, last_position |-> 30],
     [has |-> {"progress_percentage", "completed"},
      progress_percentage |-> 100, completed |-> TRUE, last_position |-> 0],
     [has |-> {"progress_percentage"},
      progress_percentage |-> 101, completed |-> FALSE, last_position |-> 0],
     [has |-> {"completed"},
      progress_percentage |-> 0, completed |-> TRUE, last_position |-> 0]}

ProgressHeaders == {NoHeader} \cup {Bearer(i.token) : i \in tokens}
ProgressIdParams == {"1", "9"}

NextProgress ==
    \/ /\ Len(reqs) < MaxReqs
       /\ \E header \in ProgressHeaders, locationId \in ProgressIdParams,
             body \in ProgressBodies :
             ProgressPut(header, locationId, body)
    \/ \E i \in DOMAIN reqs : ProgressUpsert(i)
    \/ StoreTick

SpecProgress == InitRegistered /\ [][NextProgress]_vars

\* at most one row of user_progress per (user_id, location_id)
ProgressUnique ==
    \A p \in user_progress, q \in user_progress :
        (p.user_id = q.user_id /\ p.location_id = q.location_id) => p = q

\* percentage, completed and last_position of the rows of a pair
StoredProgress(table, user_id, location_id) ==
    {[progress_percentage |-> q.progress_percentage,
      completed |-> q.completed, last_position |-> q.last_position] :
        q \in SelectProgress(table, user_id, location_id)}

\* request i repeats the answered request j: same user, location and payload
Repeats(i, j) ==
    /\ reqs[i].route = ProgressRoute /\ reqs[j].route = ProgressRoute
    /\ reqs[i].status = 200 /\ reqs[j].status = 200
    /\ Before(j, i)
    /\ reqs[i].user.id = reqs[j].user.id
    /\ reqs[i].params = reqs[j].params
    /\ reqs[i].body = reqs[j].body

\* C7: user_progress holds at most one row per (user_id, location_id)
\* whatever the interleaving of the PUT requests, and a request that repeats
\* an earlier one with the same payload leaves percentage, completed and
\* last_position of the row exactly as the first application left them.
C7_UpsertIdempotent ==
    /\ ProgressUnique
    /\ \A i \in DOMAIN reqs, j \in DOMAIN reqs :
          Repeats(i, j)
          => LET id == reqs[i].user.id
                 loc == ParseInt(reqs[i].params.locationId)
             IN  /\ Cardinality(SelectProgress(reqs[i].post.user_progress,
                                               id, loc)) = 1
                 /\ StoredProgress(reqs[i].post.user_progress, id, loc)
                       = StoredProgress(reqs[j].post.user_progress, id, loc)

C7_Witness ==
    \E i \in DOMAIN reqs, j \in DOMAIN reqs :
        /\ Repeats(i, j)
        /\ reqs[i].data.updated_at > reqs[j].data.updated_at
        /\ StoredProgress(user_progress, reqs[i].user.id, 1)
              = {[progress_percentage |-> 50, completed |-> FALSE,
                  last_position |-> 30]}

(***************************************************************************)
(* The locations router.  Express tries the routes in the order in which   *)
(* router.get/post/put/delete registered them and runs the first one whose *)
(* method and path match the request.                                      *)
(***************************************************************************)
Lit(text) == [param |-> FALSE, text |-> text]
Param(name) == [param |-> TRUE, text |-> name]

\* the routes, in the order of their registration
LocationsRouter ==
    <<[method |-> "GET", path |-> <<>>, handler |-> "list"],
      [method |-> "GET", path |-> <<Param("id")>>, handler |-> "getById"],
      [method |-> "POST", path |-> <<>>, handler |-> "create"],
      [method |-> "PUT", path |-> <<Param("id")>>, handler |-> "update"],
      [method |-> "DELETE", path |-> <<Param("id")>>, handler |-> "remove"],
      [method |-> "GET", path |-> <<Lit("stats"), Lit("overview")>>,
       handler |-> "statsOverview"]>>

MatchPathGreedyParam(pattern, path) ==
    /\ Len(pattern) <= Len(path)
    /\ \A k \in DOMAIN pattern :
          pattern[k].param \/ pattern[k].text = path[k]
    /\ Len(pattern) < Len(path)
          => (Len(pattern) >= 1 /\ pattern[Len(pattern)].param)

\* a route path matches a request path of as many segments, segment by
\* segment; a parameter matches one segment
MatchPath(pattern, path) ==
    /\ Len(pattern) = Len(path)
    /\ \A k \in DOMAIN pattern :
          pattern[k].param \/ pattern[k].text = path[k]

\* the handler of the first route that matches, "none" when no route does
Dispatch(router, method, path) ==
    LET hits == {k \in DOMAIN router :
                    /\ router[k].method = method
                    /\ MatchPath(router[k].path, path)}
    IN  IF hits = {} THEN "none"
        ELSE router[CHOOSE k \in hits : \A h \in hits : k <= h].handler

\* req.params.id of a request served by a '/:id' route
IdParam(path) == path[1]

(***************************************************************************)
(* GET /api/locations/:id                                                  *)
(***************************************************************************)
\* the columns GET /:id and the RETURNING clauses select: all but created_by
LocationView(l) ==
    [id |-> l.id, name |-> l.name, description |-> l.description,
     category |-> l.category, duration |-> l.duration, rating |-> l.rating,
     listeners |-> l.listeners, is_premium |-> l.is_premium,
     image_url |-> l.image_url, audio_url |-> l.audio_url,
     latitude |-> l.latitude, longitude |-> l.longitude,
     created_at |-> l.created_at, updated_at |-> l.updated_at]

\* one statement: 400 on an id that is no integer >= 1, 404 on no row
LocationGet(path) ==
    /\ Dispatch(LocationsRouter, "GET", path) = "getById"
    /\ LET req == NewReq("getById", NoHeader,
                         [method |-> "GET", path |-> path], NoBody)
           rows == SelectLocationById(locations, ParseInt(IdParam(path)))
       IN  reqs' = Append(reqs,
             IF ~IsInt(IdParam(path), 1)
             THEN Respond(req, 400, "Validation failed", Null, Snapshot)
             ELSE IF rows = {}
             THEN Respond([req EXCEPT !.queries = 1],
                          404, "Location not found", Null, Snapshot)
             ELSE Respond([req EXCEPT !.queries = 1], 200, "",
                          LocationView(CHOOSE l \in rows : TRUE), Snapshot))
    /\ UNCHANGED <<now, JWT_SECRET, NODE_ENV, tokens, storeVars>>

\* a request no route of the router matches falls through to the 404
\* handler of the application
LocationsNotFound(method, path) ==
    /\ Dispatch(LocationsRouter, method, path) = "none"
    /\ reqs' = Append(reqs,
          Respond(NewReq("none", NoHeader,
                         [method |-> method, path |-> path], NoBody),
                  404, "Route not found", Null, Snapshot))
    /\ UNCHANGED <<now, JWT_SECRET, NODE_ENV, tokens, storeVars>>

(***************************************************************************)
(* GET /api/locations/stats/overview: four statements                      *)
(***************************************************************************)
RECURSIVE SumRatings(_)
SumRatings(rows) ==
    IF rows = {} THEN 0
    ELSE LET l == CHOOSE x \in rows : TRUE
         IN  l.rating + SumRatings(rows \ {l})

\* the odd k below 100 for which the double nearest to k/20 lies below k/20
HalfBelow ==
    {3, 7, 17, 19, 23, 29, 33, 39, 41, 43, 51, 53, 61, 63, 71, 73, 81, 87,
     91, 97}

\* parseFloat(x).toFixed(1) of the decimal x = num/den the store returns, in
\* tenths: the nearest tenth of the double nearest to x, the larger one when
\* the double lies halfway.  x lies halfway in decimal when x = k/20 with k
\* odd; its double then lies below x for the k of HalfBelow and is x or lies
\* above x for every other k (the averages above 5 that lie halfway are
\* multiples of 1/4, which doubles hold exactly).
ToFixed1(num, den) ==
    LET t == (10 * num) \div den
        r == 10 * num - t * den
    IN  IF 2 * r < den THEN t
        ELSE IF 2 * r > den THEN t + 1
        ELSE IF (2 * t + 1) \in HalfBelow THEN t
        ELSE t + 1

AverageRatingOfAll(rows) ==
    IF rows = {} THEN 0
    ELSE ToFixed1(SumRatings(rows),
                  10 * Cardinality(locations))

\* parseFloat(avg_rating || 0).toFixed(1) of AVG(rating) over the rows, in
\* tenths like rating
AverageRating(rows) ==
    IF rows = {} THEN 0
    ELSE ToFixed1(SumRatings(rows), 10 * Cardinality(rows))

\* SELECT category, COUNT(*) FROM locations GROUP BY category (the rows of
\* the result; the response lists them by count, largest first)
CategoryStats(table) ==
    {[category |-> c, count |-> Cardinality({l \in table : l.category = c})] :
        c \in {l.category : l \in table}}

\* the request is received and SELECT COUNT(*) FROM locations runs
LocationStats(path) ==
    /\ Dispatch(LocationsRouter, "GET", path) = "statsOverview"
    /\ reqs' = Append(reqs,
          [NewReq("statsOverview", NoHeader,
                  [method |-> "GET", path |-> path], NoBody)
           EXCEPT !.pc = "premium", !.queries = 1,
                  !.local = [total |-> Cardinality(locations)]])
    /\ UNCHANGED <<now, JWT_SECRET, NODE_ENV, tokens, storeVars>>

\* SELECT COUNT(*) FROM locations WHERE is_premium = true
LocationStatsPremium(i) ==
    /\ reqs[i].route = "statsOverview" /\ reqs[i].pc = "premium"
    /\ reqs' = [reqs EXCEPT ![i] =
          [@ EXCEPT !.pc = "categories", !.queries = 2,
                    !.local = [total |-> @.total,
                               premium |-> Cardinality(
                                   {l \in locations : l.is_premium = "true"})]]]
    /\ UNCHANGED <<now, JWT_SECRET, NODE_ENV, tokens, storeVars>>

\* SELECT category, COUNT(*) ... GROUP BY category ORDER BY count DESC
LocationStatsCategories(i) ==
    /\ reqs[i].route = "statsOverview" /\ reqs[i].pc = "categories"
    /\ reqs' = [reqs EXCEPT ![i] =
          [@ EXCEPT !.pc = "average", !.queries = 3,
                    !.local = [total |-> @.total, premium |-> @.premium,
                               categories |-> CategoryStats(locations)]]]
    /\ UNCHANGED <<now, JWT_SECRET, NODE_ENV, tokens, storeVars>>

\* SELECT AVG(rating) FROM locations WHERE rating > 0, and the response
LocationStatsAverage(i) ==
    /\ reqs[i].route = "statsOverview" /\ reqs[i].pc = "average"
    /\ LET req == [reqs[i] EXCEPT !.queries = 4]
       IN  reqs' = [reqs EXCEPT ![i] =
             Respond(req, 200, "",
                     [total_locations |-> req.local.total,
                      premium_locations |-> req.local.premium,
                      free_locations |-> req.local.total - req.local.premium,
                      average_rating |->
                          AverageRating({l \in locations : l.rating > 0}),
                      categories |-> req.local.categories],
                     Snapshot)]
    /\ UNCHANGED <<now, JWT_SECRET, NODE_ENV, tokens, storeVars>>

(***************************************************************************)
(* POST /api/locations                                                     *)
(***************************************************************************)
Categories == {"Architecture", "Religion", "History", "Culture", "Nature"}

\* validateLocation: name is required, every other field is checked only
\* when the body carries it (rating in tenths, coordinates in 1/10000 degree)
LocationValid(body) ==
    /\ Supplied(body, "name") /\ body.name # ""
    /\ Supplied(body, "category") => body.category \in Categories
    /\ Supplied(body, "rating") => (body.rating >= 0 /\ body.rating <= 50)
    /\ Supplied(body, "listeners") => body.listeners >= 0
    /\ Supplied(body, "latitude")
          => (body.latitude >= -900000 /\ body.latitude <= 900000)
    /\ Supplied(body, "longitude")
          => (body.longitude >= -1800000 /\ body.longitude <= 1800000)

\* the destructuring defaults of the create handler
CreateFields(body) ==
    [name |-> body.name,
     description |-> IF Supplied(body, "description") THEN body.description
                     ELSE "",
     category |-> IF Supplied(body, "category") THEN body.category
                  ELSE "Architecture",
     duration |-> IF Supplied(body, "duration") THEN body.duration ELSE "",
     rating |-> IF Supplied(body, "rating") THEN body.rating ELSE 0,
     listeners |-> IF Supplied(body, "listeners") THEN body.listeners ELSE 0,
     is_premium |-> IF Supplied(body, "is_premium")
                    THEN BoolText(body.is_premium) ELSE "false",
     image_url |-> IF Supplied(body, "image_url") THEN body.image_url ELSE "",
     audio_url |-> IF Supplied(body, "audio_url") THEN body.audio_url ELSE "",
     latitude |-> IF Supplied(body, "latitude") THEN body.latitude
                  ELSE NullNum,
     longitude |-> IF Supplied(body, "longitude") THEN body.longitude
                   ELSE NullNum]

\* the INSERT of the create handler: its column list, and the placeholders
\* $1..$11 of its VALUES list
CreateColumns ==
    <<"name", "description", "category", "duration", "rating", "listeners",
      "is_premium", "image_url", "audio_url", "latitude", "longitude",
      "created_by">>
CreatePlaceholders == 11

\* INSERT INTO locations (...) VALUES (...) RETURNING ...: the store rejects
\* a statement whose VALUES list is not as long as its column list
InsertLocation(table, seq, f, created_by, t) ==
    LET row == LocationRow(seq + 1, f, created_by, t)
    IN  IF Len(CreateColumns) # CreatePlaceholders
        THEN [ok |-> FALSE, table |-> table, seq |-> seq, rows |-> {}]
        ELSE [ok |-> TRUE, table |-> table \cup {row}, seq |-> seq + 1,
              rows |-> {row}]

\* authenticateToken, validateLocation, then the one statement of the
\* handler; an error of the INSERT is caught and answered with 500
LocationCreate(path, header, body) ==
    /\ Dispatch(LocationsRouter, "POST", path) = "create"
    /\ LET req == Authenticated(NewReq("create", header,
                                       [method |-> "POST", path |-> path],
                                       body))
           ins == InsertLocation(locations, locationsSeq, CreateFields(body),
                                 req.user.id, now)
           post == [Snapshot EXCEPT !.locations = ins.table]
       IN  IF req.pc = "done" \/ ~LocationValid(body)
           THEN /\ reqs' = Append(reqs,
                     IF req.pc = "done" THEN req
                     ELSE Respond(req, 400, "Validation failed", Null,
                                  Snapshot))
                /\ UNCHANGED <<locations, locationsSeq>>
           ELSE /\ locations' = ins.table
                /\ locationsSeq' = ins.seq
                /\ reqs' = Append(reqs,
                     IF ins.ok
                     THEN Respond([req EXCEPT !.queries = 1], 201, "",
                                  LocationView(CHOOSE l \in ins.rows : TRUE),
                                  post)
                     ELSE Caught([req EXCEPT !.queries = 1],
                                 "Failed to create location", PgError, post))
    /\ UNCHANGED <<now, JWT_SECRET, NODE_ENV,
                   tokens, users, usersSeq, user_favorites,
                   favoritesSeq, user_progress, progressSeq>>

\* what clients of the locations router send
LocationPaths ==
    {<<>>, <<"1">>, <<"9">>, <<"abc">>, <<"stats">>, <<"overview">>,
     <<"stats", "overview">>, <<"1", "overview">>}

LocationHeaders == {NoHeader} \cup {Bearer(i.token) : i \in tokens}

LocationBodies ==
    {[has |-> {"name", "description", "category", "duration", "rating",
               "listeners", "is_premium", "image_url", "audio_url",
               "latitude", "longitude"},
      name |-> "Maiden Tower", description |-> "A tower on an islet",
      category |-> "History", duration |-> "5 min", rating |-> 45,
      listeners |-> 10, is_premium |-> TRUE, image_url |-> "photo-1",
      audio_url |-> "audio-1", latitude |-> 410211, longitude |-> 290041],
     [has |-> {"name"},
      name |-> "Basilica Cistern", description |-> "", category |-> "",
      duration |-> "", rating |-> 0, listeners |-> 0, is_premium |-> FALSE,
      image_url |-> "", audio_url |-> "", latitude |-> 0, longitude |-> 0],
     [has |-> {"name", "rating"},
      name |-> "Grand Bazaar", description |-> "", category |-> "",
      duration |-> "", rating |-> 60, listeners |-> 0, is_premium |-> FALSE,
      image_url |-> "", audio_url |-> "", latitude |-> 0, longitude |-> 0]}

NextLocations ==
    \/ Len(reqs) < MaxReqs /\ \E path \in LocationPaths : LocationGet(path)
    \/ /\ Len(reqs) < MaxReqs
       /\ \E method \in {"GET", "POST"}, path \in LocationPaths :
             LocationsNotFound(method, path)
    \/ Len(reqs) < MaxReqs /\ \E path \in LocationPaths : LocationStats(path)
    \/ \E i \in DOMAIN reqs : LocationStatsPremium(i)
    \/ \E i \in DOMAIN reqs : LocationStatsCategories(i)
    \/ \E i \in DOMAIN reqs : LocationStatsAverage(i)
    \/ /\ Len(reqs) < MaxReqs
       /\ \E path \in LocationPaths, header \in LocationHeaders,
             body \in LocationBodies :
             LocationCreate(path, header, body)

SpecLocations == InitRegistered /\ [][NextLocations]_vars

\* the requests for GET /api/locations/stats/overview
StatsOverviewReqs ==
    {r \in Range(reqs) : /\ r.params.method = "GET"
                         /\ r.params.path = <<"stats", "overview">>}

Created(r) == r.post.locations \ r.pre.locations

\* C10: every authenticated POST /api/locations whose fields pass validation
\* inserts exactly one new locations row with created_by equal to the id of
\* the caller's token and responds 201 carrying that row.
C10_CreateInsertsRow ==
    \A r \in Range(reqs) :
        (/\ r.route = "create" /\ r.pc = "done"
         /\ r.user # Null
         /\ r.body.name # "" /\ r.body.rating <= 50)
        => (/\ r.status = 201
            /\ Cardinality(Created(r)) = 1
            /\ \A l \in Created(r) :
                  l.created_by = r.user.id /\ r.data = LocationView(l))

(***************************************************************************)
(* The auth router: login, me, change-password and profile.                *)
(***************************************************************************)
LoginRoute == "POST /api/auth/login"
MeRoute == "GET /api/auth/me"
ChangePasswordRoute == "POST /api/auth/change-password"
ProfileRoute == "PUT /api/auth/profile"

\* validateLogin
LoginValid(body) ==
    /\ isEmail(body.email)
    /\ Len(body.password) >= 1

\* the user object of the register and login responses
PublicUser(u) ==
    Columns(u, {"id", "email", "first_name", "last_name", "is_premium",
                "subscription_type", "created_at"})

\* the body of both 401 responses of login, next to their error
InvalidCredentials == [message |-> "Email or password is incorrect"]

LoginRevealsUnknownEmail(body) ==
    /\ LET req == NewReq(LoginRoute, NoHeader, NoBody, body)
           rows == SelectUsersByEmail(users, normalizeEmail(body.email))
           user == CHOOSE u \in rows : TRUE
           token == generateToken(user, JWT_SECRET, now)
       IN  IF \/ ~LoginValid(body)
              \/ rows = {}
              \/ ~bcryptCompare(body.password, user.password_hash)
           THEN /\ reqs' = Append(reqs,
                     IF ~LoginValid(body)
                     THEN Respond(req, 400, "Validation failed", Null, Snapshot)
                     ELSE IF rows = {}
                     THEN Respond([req EXCEPT !.queries = 1], 404,
                                  "User not found", Null, Snapshot)
                     ELSE Respond([req EXCEPT !.queries = 1], 401,
                                  "Invalid credentials", InvalidCredentials,
                                  Snapshot))
                /\ UNCHANGED tokens
           ELSE /\ reqs' = Append(reqs,
                     Respond([req EXCEPT !.queries = 1], 200, "",
                             [user |-> PublicUser(user), token |-> token],
                             Snapshot))
                /\ tokens' = tokens \cup
                     {[token |-> token, user |-> PublicUser(user),
                       secret |-> EffectiveSecret(JWT_SECRET), at |-> now,
                           log |-> {}]}
    /\ UNCHANGED <<now, JWT_SECRET, NODE_ENV, storeVars>>

\* POST /login: validation, SELECT ... FROM users WHERE email = $1,
\* bcrypt.compare, generateToken; one statement
Login(body) ==
    /\ LET req == NewReq(LoginRoute, NoHeader, NoBody, body)
           rows == SelectUsersByEmail(users, normalizeEmail(body.email))
           user == CHOOSE u \in rows : TRUE
           token == generateToken(user, JWT_SECRET, now)
       IN  IF \/ ~LoginValid(body)
              \/ rows = {}
              \/ ~bcryptCompare(body.password, user.password_hash)
           THEN /\ reqs' = Append(reqs,
                     IF ~LoginValid(body)
                     THEN Respond(req, 400, "Validation failed", Null, Snapshot)
                     ELSE Respond([req EXCEPT !.queries = 1], 401,
                                  "Invalid credentials", InvalidCredentials,
                                  Snapshot))
                /\ UNCHANGED tokens
           ELSE /\ reqs' = Append(reqs,
                     Respond([req EXCEPT !.queries = 1], 200, "",
                             [user |-> PublicUser(user), token |-> token],
                             Snapshot))
                /\ tokens' = tokens \cup
                     {[token |-> token, user |-> PublicUser(user),
                       secret |-> EffectiveSecret(JWT_SECRET), at |-> now,
                           log |-> {}]}
    /\ UNCHANGED <<now, JWT_SECRET, NODE_ENV, storeVars>>

\* SELECT ... FROM users WHERE id = $1
SelectUserById(table, id) == {u \in table : u.id = id}

\* GET /me: authenticateToken, then one statement
Me(header) ==
    /\ LET req == Authenticated(NewReq(MeRoute, header, NoBody, NoBody))
           rows == SelectUserById(users, req.user.id)
       IN  reqs' = Append(reqs,
             IF req.pc = "done" THEN req
             ELSE IF rows = {}
             THEN Respond([req EXCEPT !.queries = 1], 404, "User not found",
                          Null, Snapshot)
             ELSE Respond([req EXCEPT !.queries = 1], 200, "",
                          [user |-> Columns(CHOOSE u \in rows : TRUE,
                              {"id", "email", "first_name", "last_name",
                               "is_premium", "subscription_type",
                               "created_at", "updated_at"})],
                          Snapshot))
    /\ UNCHANGED <<now, JWT_SECRET, NODE_ENV, tokens, storeVars>>

\* the validators of change-password
ChangePasswordValid(body) ==
    /\ Len(body.current_password) >= 1
    /\ Len(body.new_password) >= MinPasswordLength

\* UPDATE users SET password_hash = $1, updated_at = CURRENT_TIMESTAMP
\* WHERE id = $2
UpdatePassword(table, id, password_hash, t) ==
    {IF u.id = id
     THEN [u EXCEPT !.password_hash = password_hash, !.updated_at = t]
     ELSE u : u \in table}

ChangePasswordUnverified(header, body) ==
    /\ LET req == Authenticated(NewReq(ChangePasswordRoute, header, NoBody,
                                       body))
           rows == SelectUserById(users, req.user.id)
       IN  reqs' = Append(reqs,
             IF req.pc = "done" THEN req
             ELSE IF ~ChangePasswordValid(body)
             THEN Respond(req, 400, "Validation failed", Null, Snapshot)
             ELSE IF rows = {}
             THEN Respond([req EXCEPT !.queries = 1], 404, "User not found",
                          Null, Snapshot)
             ELSE [req EXCEPT !.pc = "update", !.queries = 1])
    /\ UNCHANGED <<now, JWT_SECRET, NODE_ENV, tokens, storeVars>>

\* POST /change-password is received and runs up to and including
\* SELECT password_hash FROM users WHERE id = $1 and bcrypt.compare
ChangePassword(header, body) ==
    /\ LET req == Authenticated(NewReq(ChangePasswordRoute, header, NoBody,
                                       body))
           rows == SelectUserById(users, req.user.id)
           user == CHOOSE u \in rows : TRUE
       IN  reqs' = Append(reqs,
             IF req.pc = "done" THEN req
             ELSE IF ~ChangePasswordValid(body)
             THEN Respond(req, 400, "Validation failed", Null, Snapshot)
             ELSE IF rows = {}
             THEN Respond([req EXCEPT !.queries = 1], 404, "User not found",
                          Null, Snapshot)
             ELSE IF ~bcryptCompare(body.current_password, user.password_hash)
             THEN Respond([req EXCEPT !.queries = 1], 401,
                          "Invalid current password", Null, Snapshot)
             ELSE [req EXCEPT !.pc = "update", !.queries = 1])
    /\ UNCHANGED <<now, JWT_SECRET, NODE_ENV, tokens, storeVars>>

\* the handler resumes: bcrypt.hash of the new password, the UPDATE, 200
ChangePasswordUpdate(i) ==
    /\ reqs[i].route = ChangePasswordRoute /\ reqs[i].pc = "update"
    /\ LET req == [reqs[i] EXCEPT !.queries = 2]
           table == UpdatePassword(users, req.user.id,
                                   bcryptHash(req.body.new_password, saltRounds),
                                   now)
       IN  /\ users' = table
           /\ reqs' = [reqs EXCEPT ![i] =
                Respond(req, 200, "", Null, [Snapshot EXCEPT !.users = table])]
    /\ UNCHANGED <<now, JWT_SECRET, NODE_ENV,
                   tokens, usersSeq, locations, locationsSeq,
                   user_favorites, favoritesSeq, user_progress, progressSeq>>

\* the passwords of the two registered users, a new one, and one too short
Secret1 == <<"s", "e", "c", "r", "e", "t", "1">>
Secret2 == <<"s", "e", "c", "r", "e", "t", "2">>
Secret9 == <<"s", "e", "c", "r", "e", "t", "9">>
TooShort == <<"a", "b", "c">>

\* what clients of login and change-password send
MaxPasswordReqs == 3

LoginBodies ==
    {[email |-> Email(<<"a">>, "x.com"), password |-> Secret1],
     [email |-> Email(<<"a">>, "x.com"), password |-> Secret9],
     [email |-> Email(<<"A">>, "X.com"), password |-> Secret9],
     [email |-> Email(<<"c">>, "x.com"), password |-> Secret1],
     [email |-> Email(<<"a">>, "x.com"), password |-> <<>>],
     [email |-> Email(<<>>, "x.com"), password |-> Secret1]}

PasswordHeaders ==
    {NoHeader} \cup {Bearer(i.token) : i \in {j \in tokens : j.user.id = 1}}

ChangePasswordBodies ==
    {[current_password |-> Secret1, new_password |-> Secret9],
     [current_password |-> Secret2, new_password |-> Secret9],
     [current_password |-> Secret1, new_password |-> TooShort],
     [current_password |-> <<>>, new_password |-> Secret9]}

NextPassword ==
    \/ Len(reqs) < MaxPasswordReqs /\ \E body \in LoginBodies : Login(body)
    \/ /\ Len(reqs) < MaxPasswordReqs
       /\ \E header \in PasswordHeaders, body \in ChangePasswordBodies :
             ChangePassword(header, body)
    \/ \E i \in DOMAIN reqs : ChangePasswordUpdate(i)

SpecPassword == InitRegistered /\ [][NextPassword]_vars

\* a login request that passed validation and names an e-mail with no users
\* row, and one that names an existing e-mail with another password than
\* the one stored
NoSuchEmail(r) ==
    /\ r.route = LoginRoute /\ LoginValid(r.body)
    /\ ~\E u \in r.pre.users : u.email = normalizeEmail(r.body.email)

WrongPassword(r) ==
    /\ r.route = LoginRoute /\ LoginValid(r.body)
    /\ \E u \in r.pre.users :
          /\ u.email = normalizeEmail(r.body.email)
          /\ u.password_hash.of # r.body.password

\* C12: of two login requests that pass validation, one naming an e-mail
\* with no users row and one naming an existing e-mail with a wrong
\* password, both get status 401 and the same body, 'Invalid credentials'
\* with the same message, and neither response carries a token.
C12_LoginDoesNotLeak ==
    \A r1 \in Range(reqs), r2 \in Range(reqs) :
        (NoSuchEmail(r1) /\ WrongPassword(r2))
        => (/\ r1.status = 401 /\ r2.status = 401
            /\ r1.error = "Invalid credentials" /\ r2.error = r1.error
            /\ r1.data = InvalidCredentials /\ r2.data = r1.data)

C12_Witness ==
    \E r1 \in Range(reqs), r2 \in Range(reqs) :
        /\ NoSuchEmail(r1) /\ WrongPassword(r2)
        /\ r1.status = 401 /\ r2.status = 401
        /\ r2.body.email = Email(<<"A">>, "X.com")
        /\ \E r3 \in Range(reqs) : r3.route = LoginRoute /\ r3.status = 200

\* a change-password request that got past authenticateToken and the
\* validators, and the users row of its caller when it arrived
ChangePasswordReqs ==
    {r \in Range(reqs) : /\ r.route = ChangePasswordRoute
                         /\ r.user # Null
                         /\ ChangePasswordValid(r.body)}

CallerRows(r) == {u \in r.pre.users : u.id = r.user.id}

\* a login that follows the answered request c, for the e-mail of row u,
\* the users table being as c left it
LoginAfter(l, c, u) ==
    /\ l.route = LoginRoute
    /\ \E i \in DOMAIN reqs, j \in DOMAIN reqs :
          reqs[i] = c /\ reqs[j] = l /\ Before(i, j)
    /\ l.pre.users = c.post.users
    /\ l.body.email = u.email

\* C16: a change-password request whose current_password does not verify
\* against the stored hash is answered 401 after its one SELECT and leaves
\* the users table as it was; the UPDATE runs only for a request whose
\* current_password verified; after a rejected request a login with the old
\* password succeeds and a login with the rejected new password (another
\* one than the old) fails.
C16_VerifyBeforeWrite ==
    \A c \in ChangePasswordReqs : \A u \in CallerRows(c) :
        /\ u.password_hash.of # c.body.current_password
              => (/\ c.status = 401 /\ c.error = "Invalid current password"
                  /\ c.queries = 1
                  /\ c.post.users = c.pre.users
                  /\ \A l \in Range(reqs) :
                        LoginAfter(l, c, u)
                        => (/\ l.body.password = u.password_hash.of
                                 => l.status = 200
                            /\ (/\ l.body.password = c.body.new_password
                                /\ l.body.password # u.password_hash.of)
                                 => l.status = 401))
        /\ c.queries = 2 => u.password_hash.of = c.body.current_password

C16_Witness ==
    \E c \in ChangePasswordReqs : \E u \in CallerRows(c) :
        /\ c.status = 401 /\ c.body.new_password = Secret9
        /\ \E l1 \in Range(reqs), l2 \in Range(reqs) :
              /\ LoginAfter(l1, c, u) /\ l1.body.password = Secret1
              /\ l1.status = 200
              /\ LoginAfter(l2, c, u) /\ l2.body.password = Secret9
              /\ l2.status = 401

(***************************************************************************)
(* The users router: subscription and stats.                               *)
(***************************************************************************)
SubscriptionRoute == "PUT /api/users/subscription"
UserStatsRoute == "GET /api/users/stats"

SubscriptionTypes == {"free", "premium", "pro"}

\* the validators of the subscription route
SubscriptionValid(body) ==
    /\ Supplied(body, "subscription_type")
    /\ body.subscription_type \in SubscriptionTypes
    /\ Supplied(body, "is_premium")

UpdateSubscriptionTypeOnly(table, id, subscription_type, is_premium, t) ==
    LET new == {[u EXCEPT !.subscription_type = subscription_type,
                          !.updated_at = t] : u \in SelectUserById(table, id)}
    IN  [table |-> (table \ SelectUserById(table, id)) \cup new, rows |-> new]

UpdateSubscriptionDerivesPremium(table, id, subscription_type, is_premium, t) ==
    LET new == {[u EXCEPT !.subscription_type = subscription_type,
                          !.is_premium = subscription_type # "free",
                          !.updated_at = t] : u \in SelectUserById(table, id)}
    IN  [table |-> (table \ SelectUserById(table, id)) \cup new, rows |-> new]

\* UPDATE users SET subscription_type = $1, is_premium = $2,
\* updated_at = CURRENT_TIMESTAMP WHERE id = $3 RETURNING ...
UpdateSubscription(table, id, subscription_type, is_premium, t) ==
    LET new == {[u EXCEPT !.subscription_type = subscription_type,
                          !.is_premium = is_premium,
                          !.updated_at = t] : u \in SelectUserById(table, id)}
    IN  [table |-> (table \ SelectUserById(table, id)) \cup new, rows |-> new]

\* PUT /subscription: authenticateToken, the validators, one statement; the
\* response carries the row the statement returned, if any
Subscription(header, body) ==
    /\ LET req == Authenticated(NewReq(SubscriptionRoute, header, NoBody,
                                       body))
           upd == UpdateSubscription(users, req.user.id,
                                     body.subscription_type, body.is_premium,
                                     now)
           post == [Snapshot EXCEPT !.users = upd.table]
       IN  IF req.pc = "done" \/ ~SubscriptionValid(body)
           THEN /\ reqs' = Append(reqs,
                     IF req.pc = "done" THEN req
                     ELSE Respond(req, 400, "Validation failed", Null,
                                  Snapshot))
                /\ UNCHANGED users
           ELSE /\ users' = upd.table
                /\ reqs' = Append(reqs,
                     Respond([req EXCEPT !.queries = 1], 200, "",
                             [user |-> IF upd.rows = {} THEN Null
                                       ELSE Columns(CHOOSE u \in upd.rows : TRUE,
                                              {"id", "email", "first_name",
                                               "last_name", "is_premium",
                                               "subscription_type",
                                               "updated_at"})],
                             post))
    /\ UNCHANGED <<now, JWT_SECRET, NODE_ENV,
                   tokens, usersSeq, locations, locationsSeq,
                   user_favorites, favoritesSeq, user_progress, progressSeq>>

\* the sequences that list every row of a set once, larger keys first
SortedDesc(rows, key) ==
    {s \in [1..Cardinality(rows) -> rows] :
        /\ \A i, j \in DOMAIN s : i # j => s[i] # s[j]
        /\ \A i, j \in DOMAIN s : i < j => s[i][key] >= s[j][key]}

\* the first n elements of a sequence
Limit(s, n) == SubSeq(s, 1, IF Len(s) < n THEN Len(s) ELSE n)

RECURSIVE SumPercentages(_)
SumPercentages(rows) ==
    IF rows = {} THEN 0
    ELSE LET q == CHOOSE x \in rows : TRUE
         IN  q.progress_percentage + SumPercentages(rows \ {q})

\* SELECT ... FROM user_progress up JOIN locations l ON up.location_id =
\* l.id WHERE up.user_id = $1 (the rows, before ORDER BY and LIMIT)
RecentActivityRows(user_id) ==
    {[name |-> l.name, category |-> l.category,
      progress_percentage |-> q.progress_percentage,
      completed |-> q.completed, updated_at |-> q.updated_at] :
        <<q, l>> \in {x \in user_progress \X locations :
                         /\ x[1].user_id = user_id
                         /\ x[1].location_id = x[2].id}}

\* GET /stats is received and SELECT COUNT(*) FROM user_favorites runs
UserStats(header) ==
    /\ LET req == Authenticated(NewReq(UserStatsRoute, header, NoBody, NoBody))
       IN  reqs' = Append(reqs,
             IF req.pc = "done" THEN req
             ELSE [req EXCEPT !.pc = "progress", !.queries = 1,
                     !.local = [favorites_count |-> Cardinality(
                        {f \in user_favorites : f.user_id = req.user.id})]])
    /\ UNCHANGED <<now, JWT_SECRET, NODE_ENV, tokens, storeVars>>

\* SELECT COUNT(*), COUNT(CASE WHEN completed ...), AVG(progress_percentage)
UserStatsProgress(i) ==
    /\ reqs[i].route = UserStatsRoute /\ reqs[i].pc = "progress"
    /\ LET rows == {q \in user_progress : q.user_id = reqs[i].user.id}
       IN  reqs' = [reqs EXCEPT ![i] =
             [@ EXCEPT !.pc = "recent", !.queries = 2,
                !.local = [favorites_count |-> @.favorites_count,
                           total_started |-> Cardinality(rows),
                           completed_count |->
                               Cardinality({q \in rows : q.completed}),
                           average_progress |->
                               IF rows = {} THEN 0
                               ELSE ToFixed1(SumPercentages(rows),
                                             Cardinality(rows))]]]
    /\ UNCHANGED <<now, JWT_SECRET, NODE_ENV, tokens, storeVars>>

\* SELECT ... ORDER BY up.updated_at DESC LIMIT 5, and the response
UserStatsRecent(i) ==
    /\ reqs[i].route = UserStatsRoute /\ reqs[i].pc = "recent"
    /\ \E recent \in SortedDesc(RecentActivityRows(reqs[i].user.id),
                                "updated_at") :
          reqs' = [reqs EXCEPT ![i] =
             Respond([@ EXCEPT !.queries = 3], 200, "",
                     [favorites_count |-> @.local.favorites_count,
                      total_started |-> @.local.total_started,
                      completed_count |-> @.local.completed_count,
                      average_progress |-> @.local.average_progress,
                      recent_activity |-> Limit(recent, 5)],
                     Snapshot)]
    /\ UNCHANGED <<now, JWT_SECRET, NODE_ENV, tokens, storeVars>>

(***************************************************************************)
(* One client that registers, logs in and then uses its tokens, sending    *)
(* each request after the previous one was answered, against a store that  *)
(* already holds another user with a favorite and a progress row.          *)
(***************************************************************************)
MaxJourneyReqs == 5

InitJourney ==
    /\ now = 0
    /\ JWT_SECRET = "s1"
    /\ NODE_ENV = "production"
    /\ tokens = {}
    /\ reqs = <<>>
    /\ users = {UserRow(1, Email(<<"b">>, "x.com"),
                        bcryptHash(Secret2, saltRounds), "", "", 0)}
    /\ usersSeq = 1
    /\ locations = DefaultLocations /\ locationsSeq = 4
    /\ user_favorites = {FavoriteRow(1, 1, 1, 0)} /\ favoritesSeq = 1
    /\ user_progress =
          {ProgressRow(1, 1, 1, [progress_percentage |-> 50,
                                 completed |-> TRUE, last_position |-> 30], 0)}
    /\ progressSeq = 1

\* the client sends its next request
Idle == Len(reqs) < MaxJourneyReqs /\ \A i \in DOMAIN reqs : reqs[i].pc = "done"

JourneyRegisterBodies ==
    {[email |-> Email(<<"a">>, "x.com"), password |-> Secret1,
      first_name |-> "", last_name |-> ""]}

JourneyLoginBodies ==
    {[email |-> Email(<<"a">>, "x.com"), password |-> Secret1],
     [email |-> Email(<<"a">>, "x.com"), password |-> Secret9]}

JourneyHeaders == {Bearer(i.token) : i \in tokens}

SubscriptionBodies ==
    {[has |-> {"subscription_type", "is_premium"},
      subscription_type |-> "premium", is_premium |-> TRUE],
     [has |-> {"subscription_type", "is_premium"},
      subscription_type |-> "gold", is_premium |-> TRUE]}

NextJourney ==
    \/ Idle /\ \E body \in JourneyRegisterBodies : RegisterCheck(body)
    \/ \E i \in DOMAIN reqs : RegisterInsert(i)
    \/ Idle /\ \E body \in JourneyLoginBodies : Login(body)
    \/ Idle /\ \E header \in JourneyHeaders : Me(header)
    \/ /\ Idle
       /\ \E header \in JourneyHeaders, body \in SubscriptionBodies :
             Subscription(header, body)
    \/ Idle /\ \E header \in JourneyHeaders : UserStats(header)
    \/ \E i \in DOMAIN reqs : UserStatsProgress(i)
    \/ \E i \in DOMAIN reqs : UserStatsRecent(i)

SpecJourney == InitJourney /\ [][NextJourney]_vars

\* the requests of the journey that starts with request s, as far as they
\* were sent: register, login, me, subscription, stats
IsRegisterA(r) ==
    /\ r.route = RegisterRoute
    /\ r.body.email = Email(<<"a">>, "x.com") /\ r.body.password = Secret1
    /\ ~\E u \in r.pre.users : u.email = Email(<<"a">>, "x.com")

IsLoginA(r) ==
    /\ r.route = LoginRoute
    /\ r.body.email = Email(<<"a">>, "x.com") /\ r.body.password = Secret1

Sent(i) == i \in DOMAIN reqs /\ reqs[i].pc = "done"

TokenOf(r) == IF r.status \in {200, 201} THEN r.data.token ELSE Null

JourneyUpTo(s, n) ==
    /\ Sent(s + n - 1)
    /\ IsRegisterA(reqs[s])
    /\ n >= 2 => IsLoginA(reqs[s + 1])
    /\ n >= 3 => (/\ reqs[s + 2].route = MeRoute
                  /\ reqs[s + 2].header = Bearer(TokenOf(reqs[s + 1])))
    /\ n >= 4 => (/\ reqs[s + 3].route = SubscriptionRoute
                  /\ reqs[s + 3].header = Bearer(TokenOf(reqs[s + 1]))
                  /\ reqs[s + 3].body.subscription_type = "premium"
                  /\ reqs[s + 3].body.is_premium)
    /\ n >= 5 => (/\ reqs[s + 4].route = UserStatsRoute
                  /\ reqs[s + 4].header = Bearer(TokenOf(reqs[s + 1])))

\* C13: from a store without a@x.com, register(a@x.com, secret1), login with
\* the same credentials, GET /me with the login token, PUT /subscription
\* {premium, true} and GET /stats, each sent after the previous answer, are
\* answered 201 with a token, 200 with a token, 200 with the same e-mail,
\* 200 with subscription_type 'premium' and is_premium true, and 200 with
\* favorites_count 0 and total_started 0.
C13_Journey ==
    \A s \in DOMAIN reqs :
        /\ JourneyUpTo(s, 1)
              => (reqs[s].status = 201 /\ reqs[s].data.token.kind = "jwt")
        /\ JourneyUpTo(s, 2)
              => (/\ reqs[s + 1].status = 200
                  /\ reqs[s + 1].data.token.kind = "jwt")
        /\ JourneyUpTo(s, 3)
              => (/\ reqs[s + 2].status = 200
                  /\ reqs[s + 2].data.user.email = Email(<<"a">>, "x.com"))
        /\ JourneyUpTo(s, 4)
              => (/\ reqs[s + 3].status = 200
                  /\ reqs[s + 3].data.user.subscription_type = "premium"
                  /\ reqs[s + 3].data.user.is_premium)
        /\ JourneyUpTo(s, 5)
              => (/\ reqs[s + 4].status = 200
                  /\ reqs[s + 4].data.favorites_count = 0
                  /\ reqs[s + 4].data.total_started = 0)

C13_Witness ==
    /\ JourneyUpTo(1, 5)
    /\ reqs[5].status = 200 /\ reqs[5].data.total_started = 0
    /\ reqs[4].data.user.is_premium
    /\ Cardinality(user_favorites) = 1 /\ Cardinality(user_progress) = 1

(***************************************************************************)
(* GET /api/locations                                                      *)
(***************************************************************************)
DefaultLimit == 50
DefaultOffset == 0

\* const { category, is_premium, limit = 50, offset = 0 } = req.query and
\* parseInt of the last two
LimitOf(query) ==
    IF Supplied(query, "limit") THEN ParseInt(query.limit) ELSE DefaultLimit
OffsetOf(query) ==
    IF Supplied(query, "offset") THEN ParseInt(query.offset) ELSE DefaultOffset

\* WHERE 1=1 [AND category = $n] [AND is_premium = $n]
ListFilter(table, query) ==
    {l \in table :
        /\ (Supplied(query, "category") /\ query.category # "")
              => l.category = query.category
        /\ Supplied(query, "is_premium")
              => l.is_premium = BoolText(query.is_premium = "true")}

PageIgnoresOffset(rows, limit, offset) == Limit(rows, limit)

\* LIMIT $n OFFSET $m of an ordered result
Page(rows, limit, offset) ==
    IF offset >= Len(rows) THEN <<>>
    ELSE Limit(SubSeq(rows, offset + 1, Len(rows)), limit)

\* one statement; the store rejects a LIMIT or OFFSET that is NaN or
\* negative, and the handler answers 500
LocationList(path, query) ==
    /\ Dispatch(LocationsRouter, "GET", path) = "list"
    /\ LET req == [NewReq("list", NoHeader,
                          [method |-> "GET", path |-> path], query)
                   EXCEPT !.queries = 1]
       IN  IF LimitOf(query) < 0 \/ OffsetOf(query) < 0
           THEN reqs' = Append(reqs,
                   Caught(req, "Failed to fetch locations", PgError,
                          Snapshot))
           ELSE \E rows \in SortedDesc(ListFilter(locations, query),
                                       "created_at") :
                   reqs' = Append(reqs,
                      LET page == Page(rows, LimitOf(query), OffsetOf(query))
                      IN  Respond(req, 200, "",
                             [rows |-> [k \in DOMAIN page |->
                                           LocationView(page[k])],
                              total |-> Len(page),
                              limit |-> LimitOf(query),
                              offset |-> OffsetOf(query)],
                             Snapshot))
    /\ UNCHANGED <<now, JWT_SECRET, NODE_ENV, tokens, storeVars>>

\* the query strings clients of the list route send
ListQueries ==
    LET q(has, category, is_premium, limit, offset) ==
            [has |-> has, category |-> category, is_premium |-> is_premium,
             limit |-> limit, offset |-> offset]
    IN  {q({}, "", "", "", ""),
         q({"limit", "offset"}, "", "", "1", "1"),
         q({"limit"}, "", "", "2", ""),
         q({"offset"}, "", "", "", "3"),
         q({"limit", "offset"}, "", "", "0", "9"),
         q({"category", "limit"}, "Architecture", "", "1", ""),
         q({"is_premium", "offset"}, "", "false", "", "1"),
         q({"is_premium"}, "", "yes", "", ""),
         q({"limit"}, "", "", "abc", ""),
         q({"offset"}, "", "", "", "-1")}

(***************************************************************************)
(* PUT and DELETE /api/locations/:id                                       *)
(***************************************************************************)
\* the destructuring of the update handler: a field the body does not carry
\* is undefined, and the store takes an undefined parameter as NULL
UpdateFields(body) ==
    [name |-> body.name,
     description |-> IF Supplied(body, "description") THEN body.description
                     ELSE NullText,
     category |-> IF Supplied(body, "category") THEN body.category
                  ELSE NullText,
     duration |-> IF Supplied(body, "duration") THEN body.duration
                  ELSE NullText,
     rating |-> IF Supplied(body, "rating") THEN body.rating ELSE NullNum,
     listeners |-> IF Supplied(body, "listeners") THEN body.listeners
                   ELSE NullNum,
     is_premium |-> IF Supplied(body, "is_premium")
                    THEN BoolText(body.is_premium) ELSE NullText,
     image_url |-> IF Supplied(body, "image_url") THEN body.image_url
                   ELSE NullText,
     audio_url |-> IF Supplied(body, "audio_url") THEN body.audio_url
                   ELSE NullText,
     latitude |-> IF Supplied(body, "latitude") THEN body.latitude
                  ELSE NullNum,
     longitude |-> IF Supplied(body, "longitude") THEN body.longitude
                   ELSE NullNum]

\* UPDATE locations SET name = $1, ..., longitude = $11,
\* updated_at = CURRENT_TIMESTAMP WHERE id = $12 RETURNING ...
UpdateLocation(table, id, f, t) ==
    LET old == SelectLocationById(table, id)
        new == {[l EXCEPT !.name = f.name, !.description = f.description,
                          !.category = f.category, !.duration = f.duration,
                          !.rating = f.rating, !.listeners = f.listeners,
                          !.is_premium = f.is_premium,
                          !.image_url = f.image_url,
                          !.audio_url = f.audio_url,
                          !.latitude = f.latitude, !.longitude = f.longitude,
                          !.updated_at = t] : l \in old}
    IN  [table |-> (table \ old) \cup new, rows |-> new]

\* PUT /:id is received: authenticateToken, the validators, and
\* SELECT id FROM locations WHERE id = $1
LocationUpdate(path, header, body) ==
    /\ Dispatch(LocationsRouter, "PUT", path) = "update"
    /\ LET req == Authenticated(NewReq("update", header,
                                       [method |-> "PUT", path |-> path],
                                       body))
       IN  reqs' = Append(reqs,
             IF req.pc = "done" THEN req
             ELSE IF ~IsInt(IdParam(path), 1) \/ ~LocationValid(body)
             THEN Respond(req, 400, "Validation failed", Null, Snapshot)
             ELSE IF SelectLocationById(locations, ParseInt(IdParam(path))) = {}
             THEN Respond([req EXCEPT !.queries = 1],
                          404, "Location not found", Null, Snapshot)
             ELSE [req EXCEPT !.pc = "write", !.queries = 1])
    /\ UNCHANGED <<now, JWT_SECRET, NODE_ENV, tokens, storeVars>>

\* the handler resumes with the UPDATE and answers 200 with the row the
\* statement returned, if any
LocationUpdateWrite(i) ==
    /\ reqs[i].route = "update" /\ reqs[i].pc = "write"
    /\ LET req == [reqs[i] EXCEPT !.queries = 2]
           upd == UpdateLocation(locations,
                                 ParseInt(IdParam(req.params.path)),
                                 UpdateFields(req.body), now)
       IN  /\ locations' = upd.table
           /\ reqs' = [reqs EXCEPT ![i] =
                Respond(req, 200, "",
                        IF upd.rows = {} THEN Null
                        ELSE LocationView(CHOOSE l \in upd.rows : TRUE),
                        [Snapshot EXCEPT !.locations = upd.table])]
    /\ UNCHANGED <<now, JWT_SECRET, NODE_ENV,
                   tokens, users, usersSeq, locationsSeq,
                   user_favorites, favoritesSeq, user_progress, progressSeq>>

LocationDeleteUnchecked(path, header) ==
    /\ Dispatch(LocationsRouter, "DELETE", path) = "remove"
    /\ LET req == Authenticated(NewReq("remove", header,
                                       [method |-> "DELETE", path |-> path],
                                       NoBody))
       IN  reqs' = Append(reqs,
             IF req.pc = "done" THEN req
             ELSE IF ~IsInt(IdParam(path), 1)
             THEN Respond(req, 400, "Validation failed", Null, Snapshot)
             ELSE [req EXCEPT !.pc = "write", !.queries = 1])
    /\ UNCHANGED <<now, JWT_SECRET, NODE_ENV, tokens, storeVars>>

\* DELETE /:id is received: authenticateToken, the validator, and
\* SELECT id FROM locations WHERE id = $1
LocationDelete(path, header) ==
    /\ Dispatch(LocationsRouter, "DELETE", path) = "remove"
    /\ LET req == Authenticated(NewReq("remove", header,
                                       [method |-> "DELETE", path |-> path],
                                       NoBody))
       IN  reqs' = Append(reqs,
             IF req.pc = "done" THEN req
             ELSE IF ~IsInt(IdParam(path), 1)
             THEN Respond(req, 400, "Validation failed", Null, Snapshot)
             ELSE IF SelectLocationById(locations, ParseInt(IdParam(path))) = {}
             THEN Respond([req EXCEPT !.queries = 1],
                          404, "Location not found", Null, Snapshot)
             ELSE [req EXCEPT !.pc = "write", !.queries = 1])
    /\ UNCHANGED <<now, JWT_SECRET, NODE_ENV, tokens, storeVars>>

\* the handler resumes with DELETE FROM locations WHERE id = $1, which
\* takes the favorites and progress rows of the location with it (ON DELETE
\* CASCADE), and answers 200
LocationDeleteWrite(i) ==
    /\ reqs[i].route = "remove" /\ reqs[i].pc = "write"
    /\ LET req == [reqs[i] EXCEPT !.queries = 2]
           id == ParseInt(IdParam(req.params.path))
           post == [Snapshot EXCEPT
                      !.locations = {l \in locations : l.id # id},
                      !.user_favorites =
                          {f \in user_favorites : f.location_id # id},
                      !.user_progress =
                          {q \in user_progress : q.location_id # id}]
       IN  /\ locations' = post.locations
           /\ user_favorites' = post.user_favorites
           /\ user_progress' = post.user_progress
           /\ reqs' = [reqs EXCEPT ![i] = Respond(req, 200, "", Null, post)]
    /\ UNCHANGED <<now, JWT_SECRET, NODE_ENV,
                   tokens, users, usersSeq, locationsSeq,
                   favoritesSeq, progressSeq>>

\* the catalog after user 1 marked location 1 a favorite and user 2 listened
\* to half of it
InitCatalog ==
    /\ now = 0
    /\ JWT_SECRET = "s1"
    /\ NODE_ENV = "production"
    /\ tokens = {[token |-> generateToken(u, "s1", 0), user |-> u,
                  secret |-> "s1", at |-> 0,
                  log |-> {}] : u \in RegisteredUsers}
    /\ reqs = <<>>
    /\ users = RegisteredUsers /\ usersSeq = 2
    /\ locations = DefaultLocations /\ locationsSeq = 4
    /\ user_favorites = {FavoriteRow(1, 1, 1, 0)} /\ favoritesSeq = 1
    /\ user_progress =
          {ProgressRow(1, 2, 1, [progress_percentage |-> 50,
                                 completed |-> FALSE, last_position |-> 30], 0)}
    /\ progressSeq = 1

\* what clients of the catalog send
CatalogPaths == {<<>>, <<"1">>, <<"9">>, <<"abc">>}

CatalogHeaders ==
    {NoHeader} \cup {Bearer(i.token) : i \in {j \in tokens : j.user.id = 1}}

UpdateBodies ==
    {[has |-> {"name", "description", "category", "duration", "rating",
               "listeners", "is_premium", "image_url", "audio_url",
               "latitude", "longitude"},
      name |-> "Maiden Tower", description |-> "A tower on an islet",
      category |-> "History", duration |-> "5 min", rating |-> 45,
      listeners |-> 10, is_premium |-> TRUE, image_url |-> "photo-1",
      audio_url |-> "audio-1", latitude |-> 410211, longitude |-> 290041],
     [has |-> {"name"},
      name |-> "Basilica Cistern", description |-> "", category |-> "",
      duration |-> "", rating |-> 0, listeners |-> 0, is_premium |-> FALSE,
      image_url |-> "", audio_url |-> "", latitude |-> 0, longitude |-> 0],
     [has |-> {"description", "category", "duration", "rating",
               "listeners", "is_premium", "image_url", "audio_url",
               "latitude", "longitude"},
      name |-> "", description |-> "A tower on an islet",
      category |-> "History", duration |-> "5 min", rating |-> 45,
      listeners |-> 10, is_premium |-> TRUE, image_url |-> "photo-1",
      audio_url |-> "audio-1", latitude |-> 410211, longitude |-> 290041],
     [has |-> {"name", "rating"},
      name |-> "Grand Bazaar", description |-> "", category |-> "",
      duration |-> "", rating |-> 60, listeners |-> 0, is_premium |-> FALSE,
      image_url |-> "", audio_url |-> "", latitude |-> 0, longitude |-> 0]}

NextCatalog ==
    \/ /\ Len(reqs) < MaxReqs
       /\ \E path \in CatalogPaths, query \in ListQueries :
             LocationList(path, query)
    \/ /\ Len(reqs) < MaxReqs
       /\ \E path \in CatalogPaths, header \in CatalogHeaders,
             body \in UpdateBodies :
             LocationUpdate(path, header, body)
    \/ \E i \in DOMAIN reqs : LocationUpdateWrite(i)
    \/ /\ Len(reqs) < MaxReqs
       /\ \E path \in CatalogPaths, header \in CatalogHeaders :
             LocationDelete(path, header)
    \/ \E i \in DOMAIN reqs : LocationDeleteWrite(i)
    \/ StoreTick

SpecCatalog == InitCatalog /\ [][NextCatalog]_vars

\* the answered list requests whose limit and offset the store accepts, the
\* rows their filters select, and how many of those are newer than a row
ListReqs ==
    {r \in Range(reqs) : /\ r.route = "list"
                         /\ LimitOf(r.body) >= 0 /\ OffsetOf(r.body) >= 0}

Selected(r) == ListFilter(r.pre.locations, r.body)

Newer(l, rows) == Cardinality({x \in rows : x.created_at > l.created_at})

PageLength(r) ==
    LET rest == Cardinality(Selected(r)) - OffsetOf(r.body)
    IN  IF rest <= 0 THEN 0
        ELSE IF rest < LimitOf(r.body) THEN rest ELSE LimitOf(r.body)

\* C14: GET /api/locations answers 200 with the selected rows newest first
\* by created_at, without the first `offset` of them (default 0) and at most
\* `limit` of them (default 50): its k-th row is the selected row with
\* exactly offset + k - 1 newer ones; limit=1&offset=1 over the four seeded
\* rows returns the second-newest one, location 3, and nothing else.
C14_ListNewestFirst ==
    \A r \in ListReqs :
        /\ r.status = 200
        /\ Len(r.data.rows) = PageLength(r)
        /\ r.data.total = PageLength(r)
        /\ \A k \in DOMAIN r.data.rows :
              \E l \in Selected(r) :
                  /\ r.data.rows[k] = LocationView(l)
                  /\ Newer(l, Selected(r)) = OffsetOf(r.body) + k - 1
        /\ (/\ r.body.has = {"limit", "offset"}
            /\ r.body.limit = "1" /\ r.body.offset = "1"
            /\ {l.id : l \in r.pre.locations} = {1, 2, 3, 4})
              => (Len(r.data.rows) = 1 /\ r.data.rows[1].id = 3)

C14_Witness ==
    \E r \in ListReqs :
        /\ r.body.has = {"limit", "offset"}
        /\ r.body.limit = "1" /\ r.body.offset = "1"
        /\ r.pre.locations = DefaultLocations
        /\ r.status = 200 /\ r.data.total = 1
        /\ r.data.rows[1].name = "Topkapi Palace"

\* the eleven fields a PUT /:id may carry
MutableFields ==
    {"name", "description", "category", "duration", "rating", "listeners",
     "is_premium", "image_url", "audio_url", "latitude", "longitude"}

\* the update requests that got past authenticateToken with the id of a
\* locations row
UpdateReqs ==
    {r \in Range(reqs) : /\ r.route = "update" /\ r.pc = "done"
                         /\ r.user # Null
                         /\ IsInt(IdParam(r.params.path), 1)}

TargetRows(r, snapshot) ==
    {l \in snapshot.locations : l.id = ParseInt(IdParam(r.params.path))}

\* C19: a PUT /api/locations/:id that omits any of the eleven mutable fields
\* is rejected with 400 and leaves the row as it was.
C19_UpdateNeverPartial ==
    \A r \in UpdateReqs :
        (r.body.has # MutableFields /\ TargetRows(r, r.pre) # {})
        => (r.status = 400 /\ TargetRows(r, r.post) = TargetRows(r, r.pre))

\* the mutating requests that got past authenticateToken and the validators
\* of their route
MutatingReqs ==
    {r \in Range(reqs) : /\ r.route \in {"update", "remove"}
                         /\ r.user # Null
                         /\ IsInt(IdParam(r.params.path), 1)
                         /\ r.route = "update" => LocationValid(r.body)}

\* C20: an authenticated, valid PUT or DELETE of /api/locations/:id whose id
\* has no locations row is answered 404 'Location not found' after its one
\* SELECT and leaves every table as it was.
C20_MissingTargetIs404 ==
    \A r \in MutatingReqs :
        TargetRows(r, r.pre) = {}
        => (/\ r.status = 404 /\ r.error = "Location not found"
            /\ r.queries = 1
            /\ r.post = r.pre)

C20_Witness ==
    \E i \in DOMAIN reqs, j \in DOMAIN reqs :
        /\ reqs[i].route = "remove" /\ reqs[i].status = 200
        /\ Before(i, j)
        /\ reqs[j] \in MutatingReqs /\ reqs[j].route = "update"
        /\ reqs[j].params.path = reqs[i].params.path
        /\ reqs[j].status = 404
        /\ user_favorites = {} /\ user_progress = {}

(***************************************************************************)
(* The stats overview over catalogs whose ratings PUT /:id has set.        *)
(***************************************************************************)
\* ratings an update may leave in a row: 0, 4.0, 4.3, 4.4, 5.0 and NULL
Ratings == {0, 40, 43, 44, 50, NullNum}

InitRated ==
    /\ now = 0
    /\ JWT_SECRET = "s1"
    /\ NODE_ENV = "production"
    /\ tokens = {}
    /\ reqs = <<>>
    /\ users = RegisteredUsers /\ usersSeq = 2
    /\ \E rating \in [1..4 -> Ratings] :
          locations = {[l EXCEPT !.rating = rating[l.id]] :
                          l \in DefaultLocations}
    /\ locationsSeq = 4
    /\ user_favorites = {} /\ favoritesSeq = 0
    /\ user_progress = {} /\ progressSeq = 0

NextRated ==
    \/ /\ Len(reqs) < MaxReqs
       /\ \E path \in {<<"stats", "overview">>, <<"stats">>} :
             LocationStats(path)
    \/ \E i \in DOMAIN reqs : LocationStatsPremium(i)
    \/ \E i \in DOMAIN reqs : LocationStatsCategories(i)
    \/ \E i \in DOMAIN reqs : LocationStatsAverage(i)

SpecRated == InitRated /\ [][NextRated]_vars

\* the answered stats requests and the rated rows of the catalog they saw
RatedReqs == {r \in Range(reqs) : r.route = "statsOverview" /\ r.pc = "done"}

Rated(r) == {l \in r.post.locations : l.rating > 0}

RatingsAre(r, zero, forty, fifty) ==
    /\ Cardinality({l \in r.post.locations : l.rating = 0}) = zero
    /\ Cardinality({l \in r.post.locations : l.rating = 40}) = forty
    /\ Cardinality({l \in r.post.locations : l.rating = 50}) = fifty

\* C15: average_rating of the stats overview is the mean of the ratings
\* greater than zero, to the nearest tenth: rows rated 0 count neither in the
\* sum nor in the number of rows, so ratings 0, 0, 4, 5 give 4.5; without a
\* rated row it is 0.
C15_AverageOfRated ==
    \A r \in RatedReqs :
        LET n == Cardinality(Rated(r))
            sum == SumRatings(Rated(r))
            avg == r.data.average_rating
        IN  /\ n = 0 => avg = 0
            /\ n > 0 => (/\ 2 * (avg * n - sum) <= n
                         /\ 2 * (sum - avg * n) <= n)
            /\ RatingsAre(r, 2, 1, 1) => avg = 45

C15_Witness ==
    \E r \in RatedReqs :
        /\ RatingsAre(r, 2, 1, 1)
        /\ r.status = 200 /\ r.data.average_rating = 45
        /\ r.data.total_locations = 4

(***************************************************************************)
(* PUT /api/auth/profile                                                   *)
(***************************************************************************)
\* the validators of the profile route
ProfileValid(body) ==
    /\ Supplied(body, "first_name") => body.first_name # ""
    /\ Supplied(body, "last_name") => body.last_name # ""
    /\ Supplied(body, "email") => isEmail(body.email)

NoUpdatesNever(body) == FALSE

\* Object.keys(updates).length === 0
NoUpdates(body) == body.has \cap {"first_name", "last_name", "email"} = {}

SelectEmailOfOthersAndSelf(table, email, id) == {u \in table : u.email = email}

\* SELECT id FROM users WHERE email = $1 AND id != $2
SelectEmailOfOthers(table, email, id) ==
    {u \in table : u.email = email /\ u.id # id}

\* UPDATE users SET <the supplied columns>, updated_at = CURRENT_TIMESTAMP
\* WHERE id = $n RETURNING ...; email is UNIQUE
UpdateProfile(table, id, body, t) ==
    LET email == normalizeEmail(body.email)
        old == SelectUserById(table, id)
        new == {[u EXCEPT
                   !.first_name = IF Supplied(body, "first_name")
                                  THEN body.first_name ELSE @,
                   !.last_name = IF Supplied(body, "last_name")
                                 THEN body.last_name ELSE @,
                   !.email = IF Supplied(body, "email") THEN email ELSE @,
                   !.updated_at = t] : u \in old}
    IN  IF /\ old # {} /\ Supplied(body, "email")
           /\ SelectEmailOfOthers(table, email, id) # {}
        THEN [ok |-> FALSE, table |-> table, rows |-> {}]
        ELSE [ok |-> TRUE, table |-> (table \ old) \cup new, rows |-> new]

\* the UPDATE of the handler and its response; an error of the statement is
\* caught and answered with 500
ProfileWrite(req) ==
    LET upd == UpdateProfile(users, req.user.id, req.body, now)
        post == [Snapshot EXCEPT !.users = upd.table]
    IN  [table |-> upd.table,
         response |->
            IF ~upd.ok
            THEN Caught(req, "Failed to update profile", PgError, post)
            ELSE Respond(req, 200, "",
                    [user |-> IF upd.rows = {} THEN Null
                              ELSE Columns(CHOOSE u \in upd.rows : TRUE,
                                     {"id", "email", "first_name",
                                      "last_name", "is_premium",
                                      "subscription_type", "created_at",
                                      "updated_at"})],
                    post)]

\* PUT /profile is received: authenticateToken, the validators, and the
\* handler up to and including its first statement: the SELECT when the body
\* carries an email, the UPDATE when it carries only names, none when it
\* carries nothing
ProfilePut(header, body) ==
    /\ LET req == Authenticated(NewReq(ProfileRoute, header, NoBody, body))
           write == ProfileWrite([req EXCEPT !.queries = 1])
       IN  IF req.pc # "done" /\ ProfileValid(body)
              /\ ~Supplied(body, "email") /\ ~NoUpdates(body)
           THEN /\ users' = write.table
                /\ reqs' = Append(reqs, write.response)
           ELSE /\ UNCHANGED users
                /\ reqs' = Append(reqs,
                     IF req.pc = "done" THEN req
                     ELSE IF ~ProfileValid(body)
                     THEN Respond(req, 400, "Validation failed", Null,
                                  Snapshot)
                     ELSE IF /\ Supplied(body, "email")
                             /\ SelectEmailOfOthers(users,
                                   normalizeEmail(body.email),
                                   req.user.id) # {}
                     THEN Respond([req EXCEPT !.queries = 1], 409,
                                  "Email already taken", Null, Snapshot)
                     ELSE IF Supplied(body, "email")
                     THEN [req EXCEPT !.pc = "update", !.queries = 1]
                     ELSE Respond(req, 400, "No updates provided", Null,
                                  Snapshot))
    /\ UNCHANGED <<now, JWT_SECRET, NODE_ENV,
                   tokens, usersSeq, locations, locationsSeq,
                   user_favorites, favoritesSeq, user_progress, progressSeq>>

\* the handler resumes after the SELECT with the UPDATE
ProfileUpdate(i) ==
    /\ reqs[i].route = ProfileRoute /\ reqs[i].pc = "update"
    /\ LET write == ProfileWrite([reqs[i] EXCEPT !.queries = 2])
       IN  /\ users' = write.table
           /\ reqs' = [reqs EXCEPT ![i] = write.response]
    /\ UNCHANGED <<now, JWT_SECRET, NODE_ENV,
                   tokens, usersSeq, locations, locationsSeq,
                   user_favorites, favoritesSeq, user_progress, progressSeq>>

\* what clients of register and profile send
ProfileRegisterBodies ==
    {[email |-> e, password |-> Secret1, first_name |-> "", last_name |-> ""] :
        e \in {Email(<<"a">>, "x.com"), Email(<<"c">>, "x.com")}}

ProfileHeaders == {NoHeader} \cup {Bearer(i.token) : i \in tokens}

ProfileBodies ==
    LET b(has, first_name, last_name, email) ==
            [has |-> has, first_name |-> first_name, last_name |-> last_name,
             email |-> email]
    IN  {b({}, "", "", Email(<<>>, "")),
         b({"first_name"}, "Ann", "", Email(<<>>, "")),
         b({"first_name"}, "", "", Email(<<>>, "")),
         b({"email"}, "", "", Email(<<"a">>, "x.com")),
         b({"email"}, "", "", Email(<<"B">>, "X.com")),
         b({"last_name", "email"}, "", "Lee", Email(<<"c">>, "x.com")),
         b({"email"}, "", "", Email(<<>>, "x.com"))}

NextProfile ==
    \/ /\ Len(reqs) < MaxReqs
       /\ \E body \in ProfileRegisterBodies : RegisterCheck(body)
    \/ \E i \in DOMAIN reqs : RegisterInsert(i)
    \/ /\ Len(reqs) < MaxReqs
       /\ \E header \in ProfileHeaders, body \in ProfileBodies :
             ProfilePut(header, body)
    \/ \E i \in DOMAIN reqs : ProfileUpdate(i)
    \/ StoreTick

SpecProfile == InitRegistered /\ [][NextProfile]_vars

(***************************************************************************)
(* C17, C18: the profile update                                            *)
(***************************************************************************)
\* the authenticated, valid profile requests that carry an email
ProfileEmailReqs ==
    {i \in DOMAIN reqs :
        /\ reqs[i].route = ProfileRoute /\ reqs[i].user # Null
        /\ ProfileValid(reqs[i].body) /\ Supplied(reqs[i].body, "email")}

\* the requested email is held, when the request arrives, by a users row
\* other than the caller's
HeldByOther(r) ==
    \E u \in r.pre.users :
        u.email = normalizeEmail(r.body.email) /\ u.id # r.user.id

\* request i overlaps no other request
Apart(i) ==
    \A j \in DOMAIN reqs \ {i} : Before(i, j) \/ Before(j, i)

\* C17: a profile update that carries an email held by another user's row is
\* answered 409 'Email already taken' and writes nothing; one that carries an
\* email held by no other row (the caller's own current email included), and
\* overlaps no other request, is answered 200 with the caller's row holding
\* that email; and no two users rows ever share an email.
C17_ProfileEmailUnique ==
    /\ \A i \in ProfileEmailReqs :
          LET r == reqs[i]
          IN  /\ HeldByOther(r) =>
                    /\ r.pc = "done" /\ r.status = 409
                    /\ r.error = "Email already taken"
                    /\ r.post.users = r.pre.users
              /\ (~HeldByOther(r) /\ r.pc = "done" /\ Apart(i)) =>
                    /\ r.status = 200
                    /\ \E u \in r.post.users :
                          /\ u.id = r.user.id
                          /\ u.email = normalizeEmail(r.body.email)
                          /\ r.data.user.email = u.email
    /\ \A u, v \in users : u.email = v.email => u.id = v.id

\* an update to another user's email was refused, and a later update to an
\* email no row held was written
C17_Witness ==
    \E i, j \in ProfileEmailReqs :
        /\ reqs[i].status = 409 /\ HeldByOther(reqs[i])
        /\ reqs[j].status = 200 /\ Before(i, j)
        /\ \A u \in reqs[j].pre.users :
              u.email # normalizeEmail(reqs[j].body.email)
        /\ \E u \in users :
              u.id = reqs[j].user.id
                 /\ u.email = normalizeEmail(reqs[j].body.email)

\* the authenticated profile requests whose body carries none of the three
\* fields
EmptyProfileReqs ==
    {i \in DOMAIN reqs :
        /\ reqs[i].route = ProfileRoute /\ reqs[i].user # Null
        /\ \A f \in {"first_name", "last_name", "email"} :
              ~Supplied(reqs[i].body, f)}

\* C18: an authenticated profile update that supplies none of first_name,
\* last_name and email is answered 400 'No updates provided' without a store
\* statement, and the users table, the caller's updated_at included, is as
\* it was.
C18_NoUpdatesProvided ==
    \A i \in EmptyProfileReqs :
        LET r == reqs[i]
        IN  /\ r.pc = "done" /\ r.status = 400
            /\ r.error = "No updates provided"
            /\ r.queries = 0
            /\ r.post.users = r.pre.users
            /\ \A u \in r.post.users :
                  u.id = r.user.id =>
                     \E v \in r.pre.users :
                        v.id = u.id /\ v.updated_at = u.updated_at

\* an empty update arrived after the clock had moved past the row's
\* updated_at
C18_Witness ==
    \E i \in EmptyProfileReqs :
        /\ reqs[i].status = 400
        /\ \E u \in reqs[i].pre.users :
              u.id = reqs[i].user.id /\ u.updated_at < reqs[i].at

(***************************************************************************)
(* GET /api/users/favorites and GET /api/users/progress                    *)
(***************************************************************************)
FavoritesRoute == "GET /api/users/favorites"
ProgressListRoute == "GET /api/users/progress"

\* SELECT l.id, ..., uf.created_at as favorited_at FROM user_favorites uf
\* JOIN locations l ON uf.location_id = l.id WHERE uf.user_id = $1 (the
\* rows, before ORDER BY)
FavoriteLocationRows(user_id) ==
    {[id |-> l.id, name |-> l.name, description |-> l.description,
      category |-> l.category, duration |-> l.duration, rating |-> l.rating,
      listeners |-> l.listeners, is_premium |-> l.is_premium,
      image_url |-> l.image_url, audio_url |-> l.audio_url,
      latitude |-> l.latitude, longitude |-> l.longitude,
      favorited_at |-> f.created_at] :
        <<f, l>> \in {x \in user_favorites \X locations :
                         /\ x[1].user_id = user_id
                         /\ x[1].location_id = x[2].id}}

\* GET /favorites: authenticateToken, then the one SELECT and the response
FavoritesGet(header) ==
    /\ LET req == Authenticated(NewReq(FavoritesRoute, header, NoBody, NoBody))
       IN  IF req.pc = "done"
           THEN reqs' = Append(reqs, req)
           ELSE \E rows \in SortedDesc(FavoriteLocationRows(req.user.id),
                                       "favorited_at") :
                   reqs' = Append(reqs,
                      Respond([req EXCEPT !.queries = 1], 200, "",
                              [rows |-> rows, total |-> Len(rows)], Snapshot))
    /\ UNCHANGED <<now, JWT_SECRET, NODE_ENV, tokens, storeVars>>

\* SELECT l.id, l.name, l.category, l.duration, l.image_url,
\* up.progress_percentage, up.completed, up.last_position, up.updated_at
\* FROM user_progress up JOIN locations l ON up.location_id = l.id
\* WHERE up.user_id = $1 (the rows, before ORDER BY)
ProgressLocationRows(user_id) ==
    {[id |-> l.id, name |-> l.name, category |-> l.category,
      duration |-> l.duration, image_url |-> l.image_url,
      progress_percentage |-> q.progress_percentage,
      completed |-> q.completed, last_position |-> q.last_position,
      updated_at |-> q.updated_at] :
        <<q, l>> \in {x \in user_progress \X locations :
                         /\ x[1].user_id = user_id
                         /\ x[1].location_id = x[2].id}}

\* GET /progress: authenticateToken, then the one SELECT and the response
ProgressGet(header) ==
    /\ LET req == Authenticated(NewReq(ProgressListRoute, header, NoBody,
                                       NoBody))
       IN  IF req.pc = "done"
           THEN reqs' = Append(reqs, req)
           ELSE \E rows \in SortedDesc(ProgressLocationRows(req.user.id),
                                       "updated_at") :
                   reqs' = Append(reqs,
                      Respond([req EXCEPT !.queries = 1], 200, "",
                              [rows |-> rows, total |-> Len(rows)], Snapshot))
    /\ UNCHANGED <<now, JWT_SECRET, NODE_ENV, tokens, storeVars>>

(***************************************************************************)
(* Every route behind authenticateToken, called with and without a token   *)
(* that verifies, with valid and invalid parameters and bodies.            *)
(***************************************************************************)
MaxProtectedReqs == 1

\* a week after a@x.com and b@x.com registered: a@x.com has just logged in
\* again, the token of b@x.com has expired; a@x.com has a favorite and a
\* progress row
InitProtected ==
    /\ now = ExpiresInDays
    /\ JWT_SECRET = "s1"
    /\ NODE_ENV = "production"
    /\ tokens = {[token |-> generateToken(u, "s1", IF u.id = 1 THEN now ELSE 0),
                  user |-> u, secret |-> "s1",
                  at |-> IF u.id = 1 THEN now ELSE 0,
                  log |-> {}] : u \in RegisteredUsers}
    /\ reqs = <<>>
    /\ users = RegisteredUsers /\ usersSeq = 2
    /\ locations = DefaultLocations /\ locationsSeq = 4
    /\ user_favorites = {FavoriteRow(1, 1, 2, 0)} /\ favoritesSeq = 1
    /\ user_progress =
          {ProgressRow(1, 1, 1, [progress_percentage |-> 50,
                                 completed |-> FALSE, last_position |-> 30], 0)}
    /\ progressSeq = 1

ProtectedHeaders ==
    {NoHeader, Bearer(Str("garbage"))} \cup {Bearer(i.token) : i \in tokens}

ProtectedPaths == {<<>>, <<"1">>, <<"abc">>}

NextProtected ==
    \/ /\ Len(reqs) < MaxProtectedReqs
       /\ \E header \in ProtectedHeaders : FavoritesGet(header)
    \/ /\ Len(reqs) < MaxProtectedReqs
       /\ \E header \in ProtectedHeaders, locationId \in LocationIdParams :
             FavoriteAdd(header, locationId)
    \/ \E i \in DOMAIN reqs : FavoriteAddCheck(i)
    \/ \E i \in DOMAIN reqs : FavoriteAddInsert(i)
    \/ /\ Len(reqs) < MaxProtectedReqs
       /\ \E header \in ProtectedHeaders, locationId \in LocationIdParams :
             FavoriteRemove(header, locationId)
    \/ /\ Len(reqs) < MaxProtectedReqs
       /\ \E header \in ProtectedHeaders : ProgressGet(header)
    \/ /\ Len(reqs) < MaxProtectedReqs
       /\ \E header \in ProtectedHeaders, locationId \in LocationIdParams,
             body \in ProgressBodies :
             ProgressPut(header, locationId, body)
    \/ \E i \in DOMAIN reqs : ProgressUpsert(i)
    \/ /\ Len(reqs) < MaxProtectedReqs
       /\ \E header \in ProtectedHeaders, body \in SubscriptionBodies :
             Subscription(header, body)
    \/ /\ Len(reqs) < MaxProtectedReqs
       /\ \E header \in ProtectedHeaders : UserStats(header)
    \/ \E i \in DOMAIN reqs : UserStatsProgress(i)
    \/ \E i \in DOMAIN reqs : UserStatsRecent(i)
    \/ /\ Len(reqs) < MaxProtectedReqs
       /\ \E header \in ProtectedHeaders : Me(header)
    \/ /\ Len(reqs) < MaxProtectedReqs
       /\ \E header \in ProtectedHeaders, body \in ProfileBodies :
             ProfilePut(header, body)
    \/ \E i \in DOMAIN reqs : ProfileUpdate(i)
    \/ /\ Len(reqs) < MaxProtectedReqs
       /\ \E header \in ProtectedHeaders, body \in ChangePasswordBodies :
             ChangePassword(header, body)
    \/ \E i \in DOMAIN reqs : ChangePasswordUpdate(i)
    \/ /\ Len(reqs) < MaxProtectedReqs
       /\ \E path \in ProtectedPaths, header \in ProtectedHeaders,
             body \in LocationBodies :
             LocationCreate(path, header, body)
    \/ /\ Len(reqs) < MaxProtectedReqs
       /\ \E path \in ProtectedPaths, header \in ProtectedHeaders,
             body \in UpdateBodies :
             LocationUpdate(path, header, body)
    \/ \E i \in DOMAIN reqs : LocationUpdateWrite(i)
    \/ /\ Len(reqs) < MaxProtectedReqs
       /\ \E path \in ProtectedPaths, header \in ProtectedHeaders :
             LocationDelete(path, header)
    \/ \E i \in DOMAIN reqs : LocationDeleteWrite(i)

SpecProtected == InitProtected /\ [][NextProtected]_vars

(***************************************************************************)
(* C11: the identity middleware runs first                                 *)
(***************************************************************************)
\* the routes of /api/users, the three account routes of /api/auth, and the
\* writing routes of /api/locations
ProtectedRoutes ==
    {FavoritesRoute, FavoriteAddRoute, FavoriteRemoveRoute, ProgressListRoute,
     ProgressRoute, SubscriptionRoute, UserStatsRoute, MeRoute, ProfileRoute,
     ChangePasswordRoute, "create", "update", "remove"}

\* the request carried a token that verified under the secret and at the
\* time of its arrival
Verified(r) ==
    LET token == ExtractToken(r.header)
    IN  /\ ~Falsy(token)
        /\ jwtVerify(token, EffectiveSecret(r.env), r.at).err = ""

\* the request's parameters or body fail the validators of its route
FailsValidation(r) ==
    \/ /\ r.route \in {FavoriteAddRoute, FavoriteRemoveRoute}
       /\ ~IsInt(r.params.locationId, 1)
    \/ /\ r.route = ProgressRoute
       /\ ~ProgressValid(r.params.locationId, r.body)
    \/ r.route = SubscriptionRoute /\ ~SubscriptionValid(r.body)
    \/ r.route = ProfileRoute /\ ~ProfileValid(r.body)
    \/ r.route = ChangePasswordRoute /\ ~ChangePasswordValid(r.body)
    \/ r.route \in {"create", "update"} /\ ~LocationValid(r.body)

\* C11: on every route of /api/users, on /api/auth/me, /profile and
\* /change-password and on POST, PUT and DELETE of /api/locations, a request
\* without a token that verifies is answered 401 or 403 by the middleware,
\* whatever its parameters and body: next() is not called, no validation
\* result is returned, no store statement runs and the tables are as they
\* were.
C11_IdentityFirst ==
    \A i \in DOMAIN reqs :
        LET r == reqs[i]
        IN  (r.route \in ProtectedRoutes /\ ~Verified(r)) =>
               /\ r.pc = "done"
               /\ r.status \in {401, 403}
               /\ r.error \in {"Access token required", "Token expired",
                               "Invalid token", "Token verification failed"}
               /\ r.nextCalls = 0
               /\ r.queries = 0
               /\ r.post = r.pre

\* a request with an invalid body and no token was answered 401
C11_Witness ==
    \E i \in DOMAIN reqs :
        /\ reqs[i].route \in ProtectedRoutes
        /\ ~Verified(reqs[i]) /\ FailsValidation(reqs[i])
        /\ reqs[i].status = 401 /\ reqs[i].queries = 0

(***************************************************************************)
(* C21: the subscription route called with every combination of its two    *)
(* fields                                                                  *)
(***************************************************************************)
\* what clients of the subscription route send
SubscriptionCombinations ==
    {[has |-> {"subscription_type", "is_premium"},
      subscription_type |-> t, is_premium |-> p] :
        t \in SubscriptionTypes \cup {"gold"}, p \in BOOLEAN}

NextSubscription ==
    \/ /\ Len(reqs) < MaxReqs
       /\ \E header \in JourneyHeaders, body \in SubscriptionCombinations :
             Subscription(header, body)
    \/ StoreTick

SpecSubscription == InitRegistered /\ [][NextSubscription]_vars

\* the authenticated requests of the subscription route
SubscriptionReqs ==
    {i \in DOMAIN reqs :
        reqs[i].route = SubscriptionRoute /\ reqs[i].user # Null}

\* C21: a PUT /api/users/subscription answered 200 leaves the caller's row
\* with exactly the subscription_type and the is_premium of the request, for
\* each of the six combinations, and returns them; a subscription_type
\* outside free, premium, pro is answered 400 and nothing is written.
C21_SubscriptionVerbatim ==
    \A i \in SubscriptionReqs :
        LET r == reqs[i]
        IN  /\ r.body.subscription_type \in {"free", "premium", "pro"} =>
                  /\ r.status = 200
                  /\ \E u \in r.post.users :
                        /\ u.id = r.user.id
                        /\ u.subscription_type = r.body.subscription_type
                        /\ u.is_premium = r.body.is_premium
                        /\ r.data.user.subscription_type = u.subscription_type
                        /\ r.data.user.is_premium = u.is_premium
            /\ r.body.subscription_type \notin {"free", "premium", "pro"} =>
                  /\ r.status = 400
                  /\ r.queries = 0
                  /\ r.post = r.pre

\* free with true and then pro with false were both stored
C21_Witness ==
    \E i, j \in SubscriptionReqs :
        /\ Before(i, j) /\ reqs[i].user.id = reqs[j].user.id
        /\ reqs[i].body.subscription_type = "free" /\ reqs[i].body.is_premium
        /\ reqs[i].status = 200
        /\ reqs[j].body.subscription_type = "pro" /\ ~reqs[j].body.is_premium
        /\ reqs[j].status = 200
        /\ \E u \in users :
              /\ u.id = reqs[j].user.id
              /\ u.subscription_type = "pro" /\ ~u.is_premium

(***************************************************************************)
(* C22: persistence failures.  query() calls pool.query once, logs an      *)
(* error and rethrows it; the handler's catch block answers.               *)
(***************************************************************************)
\* POST /favorites/:locationId is received and its first statement throws
FavoriteAddDown(header, locationId) ==
    /\ LET req == Authenticated(NewReq(FavoriteAddRoute, header,
                                       [locationId |-> locationId], NoBody))
       IN  /\ req.pc # "done" /\ IsInt(locationId, 1)
           /\ reqs' = Append(reqs,
                 Caught([req EXCEPT !.queries = 1],
                        "Failed to add to favorites", PgError, Snapshot))
    /\ UNCHANGED <<now, JWT_SECRET, NODE_ENV, tokens, storeVars>>

\* the handler resumes and its next statement throws
FavoriteAddFails(i) ==
    /\ reqs[i].route = FavoriteAddRoute /\ reqs[i].pc \in {"check", "insert"}
    /\ reqs' = [reqs EXCEPT ![i] =
          Caught([@ EXCEPT !.queries = @ + 1],
                 "Failed to add to favorites", PgError, Snapshot)]
    /\ UNCHANGED <<now, JWT_SECRET, NODE_ENV, tokens, storeVars>>

\* the registered store, served by a process in either mode
InitFailing ==
    /\ now = 0
    /\ JWT_SECRET = "s1"
    /\ NODE_ENV \in Modes
    /\ tokens = {[token |-> generateToken(u, "s1", 0), user |-> u,
                  secret |-> "s1", at |-> 0,
                  log |-> {}] : u \in RegisteredUsers}
    /\ reqs = <<>>
    /\ users = RegisteredUsers /\ usersSeq = 2
    /\ locations = DefaultLocations /\ locationsSeq = 4
    /\ user_favorites = {} /\ favoritesSeq = 0
    /\ user_progress = {} /\ progressSeq = 0

NextFailing ==
    \/ /\ Len(reqs) < MaxReqs
       /\ \E header \in FavoriteHeaders, locationId \in LocationIdParams :
             FavoriteAdd(header, locationId)
    \/ /\ Len(reqs) < MaxReqs
       /\ \E header \in FavoriteHeaders, locationId \in LocationIdParams :
             FavoriteAddDown(header, locationId)
    \/ \E i \in DOMAIN reqs : FavoriteAddCheck(i)
    \/ \E i \in DOMAIN reqs : FavoriteAddInsert(i)
    \/ \E i \in DOMAIN reqs : FavoriteAddFails(i)

SpecFailing == InitFailing /\ [][NextFailing]_vars

\* C22: a request whose persistence call failed is answered once, with 500,
\* after that one call and no further one, and in production mode the
\* response's message is not the message of the persistence error.
C22_GenericInProduction ==
    \A i \in DOMAIN reqs :
        reqs[i].status = 500 =>
           /\ reqs[i].pc = "done"
           /\ reqs[i].queries \in 1..3
           /\ NODE_ENV = "production" => reqs[i].message # PgError

(***************************************************************************)
(* C23: the fallback secret in production                                  *)
(***************************************************************************)
\* a console line saying that the fallback secret is in use
FallbackNotice == "JWT_SECRET is not set, using the fallback secret"

\* C23: in production mode, a token signed under the fallback secret, and a
\* request whose token was accepted while JWT_SECRET was unset, each come
\* with a console line saying that the fallback secret is in use.
C23_FallbackNeverSilent ==
    NODE_ENV = "production" =>
       /\ \A i \in tokens :
             i.secret = FallbackSecret => FallbackNotice \in i.log
       /\ \A k \in DOMAIN reqs :
             (reqs[k].env = "" /\ reqs[k].user # Null)
                => FallbackNotice \in reqs[k].log

(***************************************************************************)
(* C24: favorites, progress and location deletes interleaved               *)
(***************************************************************************)
IntegrityIds == {"1", "2"}

NextIntegrity ==
    \/ /\ Len(reqs) < MaxReqs
       /\ \E header \in JourneyHeaders, locationId \in IntegrityIds :
             FavoriteAdd(header, locationId)
    \/ \E i \in DOMAIN reqs : FavoriteAddCheck(i)
    \/ \E i \in DOMAIN reqs : FavoriteAddInsert(i)
    \/ /\ Len(reqs) < MaxReqs
       /\ \E header \in JourneyHeaders, locationId \in IntegrityIds :
             FavoriteRemove(header, locationId)
    \/ /\ Len(reqs) < MaxReqs
       /\ \E header \in JourneyHeaders, locationId \in IntegrityIds,
             body \in ProgressBodies :
             ProgressPut(header, locationId, body)
    \/ \E i \in DOMAIN reqs : ProgressUpsert(i)
    \/ /\ Len(reqs) < MaxReqs
       /\ \E header \in JourneyHeaders, locationId \in IntegrityIds :
             LocationDelete(<<locationId>>, header)
    \/ \E i \in DOMAIN reqs : LocationDeleteWrite(i)

SpecIntegrity == InitCatalog /\ [][NextIntegrity]_vars

\* every row of the table references a users row and a locations row of the
\* snapshot
References(table, snapshot) ==
    \A x \in table :
        /\ \E u \in snapshot.users : u.id = x.user_id
        /\ \E l \in snapshot.locations : l.id = x.location_id

\* the answered deletes of a location
DeletedReqs ==
    {i \in DOMAIN reqs : reqs[i].route = "remove" /\ reqs[i].status = 200}

\* C24: in every state every user_favorites row and every user_progress row
\* references a users row and a locations row that exist, and when a delete
\* of a location is answered 200 the location and every favorites and
\* progress row that referenced it are gone.
C24_ReferencesExist ==
    /\ References(user_favorites, Snapshot)
    /\ References(user_progress, Snapshot)
    /\ \A i \in DeletedReqs :
          LET id == ParseInt(IdParam(reqs[i].params.path))
              post == reqs[i].post
          IN  /\ \A l \in post.locations : l.id # id
              /\ \A f \in post.user_favorites : f.location_id # id
              /\ \A q \in post.user_progress : q.location_id # id

\* a location that had a favorites row and a progress row was deleted while
\* a favorite-add for it was between its checks and its INSERT
C24_Witness ==
    \E i \in DeletedReqs : \E j \in DOMAIN reqs :
        LET id == ParseInt(IdParam(reqs[i].params.path))
        IN  /\ \E f \in reqs[i].pre.user_favorites : f.location_id = id
            /\ \E q \in reqs[i].pre.user_progress : q.location_id = id
            /\ reqs[j].route = FavoriteAddRoute
            /\ ParseInt(reqs[j].params.locationId) = id
            /\ ~Before(i, j) /\ ~Before(j, i)
            /\ reqs[j].status = 500

(***************************************************************************)
(* C25, C26: two overlapping requests that both passed the existence check *)
(***************************************************************************)
\* requests i and j overlap and they, and no other request, ran the last
\* statement of their route, statement number n
BothPassed(i, j, n) ==
    /\ i # j /\ ~Before(i, j) /\ ~Before(j, i)
    /\ reqs[i].pc = "done" /\ reqs[j].pc = "done"
    /\ reqs[i].queries = n /\ reqs[j].queries = n
    /\ \A k \in DOMAIN reqs \ {i, j} : reqs[k].queries < n

\* C25: when two valid registrations for the same normalised e-mail overlap
\* and both ran their existence check before either inserted, the users
\* table holds exactly one row for that e-mail, one request is answered 201
\* and the other 409.
C25_OverlappingRegistrations ==
    \A i, j \in DOMAIN reqs :
        (/\ ValidRegister(reqs[i]) /\ ValidRegister(reqs[j])
         /\ SameMailbox(reqs[i].body.email, reqs[j].body.email)
         /\ BothPassed(i, j, 2))
        => /\ Cardinality(RowsOfMailbox(reqs[i].body.email)) = 1
           /\ {reqs[i].status, reqs[j].status} = {201, 409}

\* C26: when two favorite-adds of one user for one existing location overlap
\* and both passed the already-favorited check before either inserted, and
\* nothing was removed meanwhile, user_favorites holds exactly one row for the pair, one request is answered
\* 201 and the other 409.
C26_OverlappingFavoriteAdds ==
    \A i, j \in DOMAIN reqs :
        (/\ reqs[i].route = FavoriteAddRoute /\ reqs[j].route = FavoriteAddRoute
         /\ BothPassed(i, j, 3)
         /\ reqs[i].user.id = reqs[j].user.id
         /\ reqs[i].params.locationId = reqs[j].params.locationId
         /\ \E l \in locations : l.id = ParseInt(reqs[i].params.locationId)
         /\ \A k \in DOMAIN reqs : reqs[k].route # FavoriteRemoveRoute)
        => /\ Cardinality(SelectFavorite(user_favorites, reqs[i].user.id,
                             ParseInt(reqs[i].params.locationId))) = 1
           /\ {reqs[i].status, reqs[j].status} = {201, 409}

(***************************************************************************)
(* C27: updates and deletes of one location interleaved                    *)
(***************************************************************************)
\* C27: every PUT /api/locations/:id answered 200 updated a row and carries
\* that row as the statement left it; an update whose target was deleted
\* between its existence check and its UPDATE statement is not answered 200.
C27_UpdateReportsRealRow ==
    \A i \in DOMAIN reqs :
        (reqs[i].route = "update" /\ reqs[i].status = 200) =>
           /\ reqs[i].data # Null
           /\ \E l \in reqs[i].post.locations :
                 /\ l.id = ParseInt(IdParam(reqs[i].params.path))
                 /\ l.updated_at >= reqs[i].at
                 /\ LocationView(l) = reqs[i].data

(***************************************************************************)
(* C28: the stats overview while the catalog changes                       *)
(***************************************************************************)
OverviewPaths == {<<>>, <<"1">>, <<"3">>, <<"stats", "overview">>}

NextOverview ==
    \/ Len(reqs) < MaxReqs /\ \E path \in OverviewPaths : LocationStats(path)
    \/ \E i \in DOMAIN reqs : LocationStatsPremium(i)
    \/ \E i \in DOMAIN reqs : LocationStatsCategories(i)
    \/ \E i \in DOMAIN reqs : LocationStatsAverage(i)
    \/ /\ Len(reqs) < MaxReqs
       /\ \E path \in OverviewPaths, header \in CatalogHeaders,
             body \in LocationBodies :
             LocationCreate(path, header, body)
    \/ /\ Len(reqs) < MaxReqs
       /\ \E path \in OverviewPaths, header \in CatalogHeaders,
             body \in UpdateBodies :
             LocationUpdate(path, header, body)
    \/ \E i \in DOMAIN reqs : LocationUpdateWrite(i)
    \/ /\ Len(reqs) < MaxReqs
       /\ \E path \in OverviewPaths, header \in CatalogHeaders :
             LocationDelete(path, header)
    \/ \E i \in DOMAIN reqs : LocationDeleteWrite(i)

SpecOverview == InitCatalog /\ [][NextOverview]_vars

\* the states the tables have been in: every change is the last step of a
\* request
TableStates ==
    {reqs[k].pre : k \in DOMAIN reqs}
       \cup {reqs[k].post : k \in {n \in DOMAIN reqs : reqs[n].pc = "done"}}

\* C28: in every stats-overview response free_locations is not negative,
\* and total_locations, premium_locations and free_locations are the number
\* of rows, of premium rows and of the other rows of one state of the
\* locations table.
C28_OverviewOfOneState ==
    \A i \in DOMAIN reqs :
        (reqs[i].route = "statsOverview" /\ reqs[i].pc = "done") =>
           /\ reqs[i].data.free_locations >= 0
           /\ \E s \in TableStates :
                 /\ reqs[i].data.total_locations = Cardinality(s.locations)
                 /\ reqs[i].data.premium_locations =
                       Cardinality({l \in s.locations : l.is_premium = "true"})
                 /\ reqs[i].data.free_locations =
                       Cardinality({l \in s.locations : l.is_premium # "true"})

(***************************************************************************)
(* C29: tokens issued before a subscription or profile change, used until  *)
(* they expire                                                             *)
(***************************************************************************)
EmailChanges ==
    {b \in ProfileBodies : Supplied(b, "email") /\ ProfileValid(b)}

\* the day before the tokens that a@x.com and b@x.com got at registration
\* expire
InitStateless ==
    /\ now = ExpiresInDays - 1
    /\ JWT_SECRET = "s1"
    /\ NODE_ENV = "production"
    /\ tokens = {[token |-> generateToken(u, "s1", 0), user |-> u,
                  secret |-> "s1", at |-> 0,
                  log |-> {}] : u \in RegisteredUsers}
    /\ reqs = <<>>
    /\ users = RegisteredUsers /\ usersSeq = 2
    /\ locations = DefaultLocations /\ locationsSeq = 4
    /\ user_favorites = {} /\ favoritesSeq = 0
    /\ user_progress = {} /\ progressSeq = 0

\* the client of a@x.com
StatelessHeaders == {Bearer(i.token) : i \in {j \in tokens : j.user.id = 1}}

NextStateless ==
    \/ Tick
    \/ /\ Len(reqs) < MaxReqs
       /\ \E header \in StatelessHeaders, body \in SubscriptionBodies :
             Subscription(header, body)
    \/ /\ Len(reqs) < MaxReqs
       /\ \E header \in StatelessHeaders, body \in EmailChanges :
             ProfilePut(header, body)
    \/ \E i \in DOMAIN reqs : ProfileUpdate(i)
    \/ Len(reqs) < MaxReqs /\ \E header \in StatelessHeaders : Me(header)

SpecStateless == InitStateless /\ [][NextStateless]_vars

\* the token that request r carried, as it was handed out
IssuedFor(r) == {i \in tokens : Bearer(i.token) = r.header}

\* the users row of id, as stored when request r arrived
StoredFor(r, id) == {u \in r.pre.users : u.id = id}

\* C29: a request carrying a token that was handed out is accepted as long
\* as the token has not expired, whatever the users row has become, and
\* req.user then holds the email, is_premium and subscription_type of the
\* row the token was issued for; from its expiry on it is answered 401.
C29_IdentityFromClaims ==
    \A k \in DOMAIN reqs : \A i \in IssuedFor(reqs[k]) :
        LET r == reqs[k]
        IN  IF r.at < i.at + ExpiresInDays
            THEN /\ r.user # Null
                 /\ r.user.id = i.user.id
                 /\ r.user.email = i.user.email
                 /\ r.user.is_premium = i.user.is_premium
                 /\ r.user.subscription_type = i.user.subscription_type
            ELSE r.status = 401 /\ r.error = "Token expired"

\* a token was accepted, with the claims of its issuance, after the
\* subscription of its user had been changed in the store
C29_Witness ==
    \E k \in DOMAIN reqs : \E i \in IssuedFor(reqs[k]) :
        /\ reqs[k].user # Null
        /\ \E u \in StoredFor(reqs[k], i.user.id) :
              /\ u.is_premium # reqs[k].user.is_premium
              /\ u.subscription_type # reqs[k].user.subscription_type


(***************************************************************************)
(* C30: two users with favorites and progress of their own, each calling   *)
(* the favorites, progress, subscription, profile and password routes      *)
(***************************************************************************)
\* a@x.com and b@x.com have registered; each has one favorite and one
\* progress record, at different locations
InitIsolated ==
    /\ now = 0
    /\ JWT_SECRET = "s1"
    /\ NODE_ENV = "production"
    /\ tokens = {[token |-> generateToken(u, "s1", 0), user |-> u,
                  secret |-> "s1", at |-> 0,
                  log |-> {}] : u \in RegisteredUsers}
    /\ reqs = <<>>
    /\ users = RegisteredUsers /\ usersSeq = 2
    /\ locations = DefaultLocations /\ locationsSeq = 4
    /\ user_favorites = {FavoriteRow(1, 1, 2, 0), FavoriteRow(2, 2, 1, 0)}
    /\ favoritesSeq = 2
    /\ user_progress =
          {ProgressRow(1, 1, 2, [progress_percentage |-> 50,
                                 completed |-> FALSE, last_position |-> 30], 0),
           ProgressRow(2, 2, 1, [progress_percentage |-> 100,
                                 completed |-> TRUE, last_position |-> 0], 0)}
    /\ progressSeq = 2

\* what the two clients send
IsolatedProgressBodies == {b \in ProgressBodies : ProgressValid("1", b)}
IsolatedPasswordBodies ==
    {b \in ChangePasswordBodies : ChangePasswordValid(b)}

NextIsolated ==
    \/ Len(reqs) < MaxReqs /\ \E header \in JourneyHeaders : FavoritesGet(header)
    \/ /\ Len(reqs) < MaxReqs
       /\ \E header \in JourneyHeaders, locationId \in IntegrityIds :
             FavoriteAdd(header, locationId)
    \/ \E i \in DOMAIN reqs : FavoriteAddCheck(i)
    \/ \E i \in DOMAIN reqs : FavoriteAddInsert(i)
    \/ /\ Len(reqs) < MaxReqs
       /\ \E header \in JourneyHeaders, locationId \in IntegrityIds :
             FavoriteRemove(header, locationId)
    \/ Len(reqs) < MaxReqs /\ \E header \in JourneyHeaders : ProgressGet(header)
    \/ /\ Len(reqs) < MaxReqs
       /\ \E header \in JourneyHeaders, locationId \in IntegrityIds,
             body \in IsolatedProgressBodies :
             ProgressPut(header, locationId, body)
    \/ \E i \in DOMAIN reqs : ProgressUpsert(i)
    \/ /\ Len(reqs) < MaxReqs
       /\ \E header \in JourneyHeaders, body \in SubscriptionBodies :
             Subscription(header, body)
    \/ /\ Len(reqs) < MaxReqs
       /\ \E header \in JourneyHeaders, body \in EmailChanges :
             ProfilePut(header, body)
    \/ \E i \in DOMAIN reqs : ProfileUpdate(i)
    \/ /\ Len(reqs) < MaxReqs
       /\ \E header \in JourneyHeaders, body \in IsolatedPasswordBodies :
             ChangePassword(header, body)
    \/ \E i \in DOMAIN reqs : ChangePasswordUpdate(i)

SpecIsolated == InitIsolated /\ [][NextIsolated]_vars

\* the rows of the three per-user tables that are not keyed by id
RowsOfOthers(snapshot, id) ==
    [users |-> {u \in snapshot.users : u.id # id},
     user_favorites |-> {f \in snapshot.user_favorites : f.user_id # id},
     user_progress |-> {q \in snapshot.user_progress : q.user_id # id}]

\* request i arrives or resumes in this step
Moves(i) == i \notin DOMAIN reqs \/ reqs'[i] # reqs[i]

\* no step of a request of user u changes a row of another user
WritesOwnRows ==
    \A i \in DOMAIN reqs' :
        Moves(i) /\ reqs'[i].user # Null
            => RowsOfOthers(Snapshot', reqs'[i].user.id)
                  = RowsOfOthers(Snapshot, reqs'[i].user.id)

\* the lists and the rows that the routes return are taken from rows keyed
\* by the caller's id
ReturnsOwnRows ==
    \A k \in DOMAIN reqs :
        LET r == reqs[k]
        IN  r.user # Null /\ r.status = 200 =>
              /\ r.route = FavoritesRoute =>
                    \A i \in DOMAIN r.data.rows :
                       \E f \in r.pre.user_favorites :
                          /\ f.user_id = r.user.id
                          /\ f.location_id = r.data.rows[i].id
              /\ r.route = ProgressListRoute =>
                    \A i \in DOMAIN r.data.rows :
                       \E q \in r.pre.user_progress :
                          /\ q.user_id = r.user.id
                          /\ q.location_id = r.data.rows[i].id
              /\ r.route \in {SubscriptionRoute, ProfileRoute} =>
                    r.data.user.id = r.user.id

\* the rows that the SELECT of PUT /profile returned to request r
EmailRowsRead(r) ==
    IF r.route = ProfileRoute /\ r.user # Null /\ r.queries >= 1
       /\ Supplied(r.body, "email")
    THEN SelectEmailOfOthers(r.pre.users, normalizeEmail(r.body.email),
                             r.user.id)
    ELSE {}

\* C30 as stated: every operation with a token of user u reads and writes
\* only rows keyed by u's id, and the rows of every other user stay as they
\* were.
C30_ReadsAndWritesOwnRows ==
    /\ [][WritesOwnRows]_vars
    /\ [](ReturnsOwnRows
          /\ \A k \in DOMAIN reqs :
                \A u \in EmailRowsRead(reqs[k]) : u.id = reqs[k].user.id)

\* C30, amended: every operation with a token of user u writes only rows
\* keyed by u's id and returns only rows keyed by u's id, so the rows of
\* every other user stay as they were; the one statement that reads rows of
\* other users is the email check of PUT /profile, and what it returns are
\* rows of other users only.
C30_WritesAndReturnsOwnRows ==
    /\ [][WritesOwnRows]_vars
    /\ [](ReturnsOwnRows
          /\ \A k \in DOMAIN reqs :
                \A u \in EmailRowsRead(reqs[k]) : u.id # reqs[k].user.id)

\* a@x.com removed a favorite and changed the email address while the rows
\* of b@x.com were in the tables
C30_Witness ==
    \E k, n \in DOMAIN reqs :
        /\ reqs[k].route = FavoriteRemoveRoute /\ reqs[k].status = 200
        /\ reqs[n].route = ProfileRoute /\ reqs[n].status = 200
        /\ reqs[k].user # Null /\ reqs[n].user # Null
        /\ reqs[k].user.id = reqs[n].user.id
        /\ RowsOfOthers(Snapshot, reqs[k].user.id)
              = RowsOfOthers(reqs[k].pre, reqs[k].user.id)
        /\ RowsOfOthers(Snapshot, reqs[k].user.id).user_favorites # {}
        /\ Snapshot # reqs[k].pre

====
